---- MODULE Spec2Model ----
(***************************************************************************)
(* Model of the SciELO JATS XML -> NDJSON converter                        *)
(* (src/scielo_xml_to_json/scielo_xml_to_json.py).                         *)
(*                                                                         *)
(* Encoding of Python values.  A str is a sequence of one-character        *)
(* strings.  Every JSON-like value is a node [t, s, c]:                    *)
(*   t  the Python type: "null" (None), "bool", "int", "str", "list",      *)
(*      "dict";                                                            *)
(*   s  the characters of a scalar (<<>> for None and for containers);     *)
(*   c  the children, a sequence of entries [k, v]: k is the key of a dict *)
(*      entry (<<>> for a list element), v the child node.                 *)
(* A dict keeps its insertion order, as a Python dict does.                *)
(***************************************************************************)
EXTENDS Integers, Sequences, FiniteSets, TLC

VARIABLES
    pc,        \* position of the running function
    p_in,      \* _prune: the value given
    p_once,    \* _prune(p_in)
    p_twice,   \* _prune(_prune(p_in))
    l_in,      \* _lowercase_record: the record given
    l_skip,    \* _lowercase_record: skip_paths
    l_out,     \* _lowercase_record(l_in, skip_paths=l_skip)
    l_again,   \* _lowercase_record(l_out, skip_paths=l_skip)
    doc,              \* parse_xml_to_record: the document at xml_path
    include_raw_xml,  \* parse_xml_to_record: include_raw_xml
    lowercase,        \* parse_xml_to_record: lowercase
    todo,             \* the elements the running loop has still to visit
    aff_map,          \* parse_xml_to_record: aff_map (entries in insertion order)
    fn_map,           \* parse_xml_to_record: fn_map
    contribs,         \* parse_xml_to_record: contribs
    record,           \* parse_xml_to_record: record, until line 587
    pruned,           \* record after line 588
    result,           \* the record returned
    input_dir,  \* walk_and_convert: the *.xml files under input_dir
    xml_files,  \* sorted(input_dir.rglob("*.xml"))
    done,       \* number of files the loop has finished with
    exc,        \* the exception caught, inside the except clause
    fout,       \* the lines written to out_path so far
    total,      \* walk_and_convert: total
    ndjson,      \* write_bulk: the text of the file at ndjson_path
    index_name,  \* write_bulk: index_name
    fin,         \* write_bulk: the lines of fin that are still to be read
    bulk,        \* write_bulk: the strings written to bulk_out so far
    bulk_n       \* write_bulk: n

pruneVars == <<p_in, p_once, p_twice>>
lowerVars == <<l_in, l_skip, l_out, l_again>>
parseVars == <<doc, include_raw_xml, lowercase, todo, aff_map, fn_map, contribs,
               record, pruned, result>>
walkVars == <<input_dir, xml_files, done, exc, fout, total>>
bulkVars == <<ndjson, index_name, fin, bulk, bulk_n>>
vars == <<pc, pruneVars, lowerVars, parseVars, walkVars, bulkVars>>

-----------------------------------------------------------------------------
(* Python values *)

JNull == [t |-> "null", s |-> <<>>, c |-> <<>>]
JInt0 == [t |-> "int", s |-> <<"0">>, c |-> <<>>]
JFalse == [t |-> "bool", s |-> <<"F">>, c |-> <<>>]
JStr(chars) == [t |-> "str", s |-> chars, c |-> <<>>]
JList(elems) ==
    [t |-> "list", s |-> <<>>,
     c |-> [i \in 1..Len(elems) |-> [k |-> <<>>, v |-> elems[i]]]]
JDict(entries) == [t |-> "dict", s |-> <<>>, c |-> entries]

\* placeholder of a variable that holds no value yet
NoValue == JStr(<<"-">>)

\* v is None or v == [] or v == {}
IsNoneOrEmpty(v) ==
    \/ v.t = "null"
    \/ v.t = "list" /\ v.c = <<>>
    \/ v.t = "dict" /\ v.c = <<>>

\* Python truthiness: "not v"
IsFalsy(v) ==
    \/ IsNoneOrEmpty(v)
    \/ v.t = "str" /\ v.s = <<>>
    \/ v = JInt0
    \/ v = JFalse

-----------------------------------------------------------------------------
(* _prune *)

KeptEntry(e) == ~IsNoneOrEmpty(e.v)
TruthyEntry(e) == ~IsFalsy(e.v)

RECURSIVE PruneShallowTest(_)
\* mutant: the emptiness test looks at the child before it is pruned
PruneShallowTest(obj) ==
    IF obj.t \in {"dict", "list"}
    THEN LET kept == SelectSeq(obj.c, KeptEntry)
         IN  [obj EXCEPT !.c = [i \in 1..Len(kept) |->
                                   [k |-> kept[i].k, v |-> PruneShallowTest(kept[i].v)]]]
    ELSE obj

RECURSIVE PruneTruthiness(_)
\* mutant: "if not v2" instead of the three explicit comparisons
PruneTruthiness(obj) ==
    IF obj.t \in {"dict", "list"}
    THEN LET children == [i \in 1..Len(obj.c) |->
                           [k |-> obj.c[i].k, v |-> PruneTruthiness(obj.c[i].v)]]
         IN  [obj EXCEPT !.c = SelectSeq(children, TruthyEntry)]
    ELSE obj

RECURSIVE _prune(_)
_prune(obj) ==
    IF obj.t = "dict"
    THEN LET children == [i \in 1..Len(obj.c) |->
                           [k |-> obj.c[i].k, v |-> _prune(obj.c[i].v)]]
         IN  [obj EXCEPT !.c = SelectSeq(children, KeptEntry)]
    ELSE IF obj.t = "list"
    THEN LET children == [i \in 1..Len(obj.c) |->
                           [k |-> <<>>, v |-> _prune(obj.c[i].v)]]
         IN  [obj EXCEPT !.c = SelectSeq(children, KeptEntry)]
    ELSE obj

-----------------------------------------------------------------------------
(* str.lower() and _lowercase_record *)

UpperChars == <<"A", "B", "C", "D", "E", "F", "G", "H", "I", "J", "K", "L", "M",
                "N", "O", "P", "Q", "R", "S", "T", "U", "V", "W", "X", "Y", "Z">>
LowerChars == <<"a", "b", "c", "d", "e", "f", "g", "h", "i", "j", "k", "l", "m",
                "n", "o", "p", "q", "r", "s", "t", "u", "v", "w", "x", "y", "z">>
DigitChars == <<"0", "1", "2", "3", "4", "5", "6", "7", "8", "9">>

LowerChar(ch) ==
    IF \E i \in 1..Len(UpperChars) : UpperChars[i] = ch
    THEN LowerChars[CHOOSE i \in 1..Len(UpperChars) : UpperChars[i] = ch]
    ELSE ch

\* str.lower()
Lower(str) == [i \in 1..Len(str) |-> LowerChar(str[i])]

\* str(n) of a list index
RECURSIVE IntToStr(_)
IntToStr(n) ==
    IF n < 10 THEN <<DigitChars[n + 1]>>
    ELSE IntToStr(n \div 10) \o <<DigitChars[(n % 10) + 1]>>

\* f"{path}.{k}" if path else k
DictChildPath(path, k) == IF path # <<>> THEN path \o <<".">> \o k ELSE k
\* f"{path}[{idx}]"
ListChildPath(path, idx) == path \o <<"[">> \o IntToStr(idx) \o <<"]">>

RECURSIVE LowercaseLeafSkipOnly(_, _, _)
\* mutant: the skip set is consulted for string leaves only, not for containers
LowercaseLeafSkipOnly(data, skip_paths, path) ==
    IF data.t = "dict"
    THEN [data EXCEPT !.c = [i \in 1..Len(data.c) |->
             [k |-> data.c[i].k,
              v |-> LowercaseLeafSkipOnly(data.c[i].v, skip_paths,
                                          DictChildPath(path, data.c[i].k))]]]
    ELSE IF data.t = "list"
    THEN [data EXCEPT !.c = [i \in 1..Len(data.c) |->
             [k |-> <<>>,
              v |-> LowercaseLeafSkipOnly(data.c[i].v, skip_paths,
                                          ListChildPath(path, i - 1))]]]
    ELSE IF data.t = "str" /\ path \notin skip_paths
    THEN JStr(Lower(data.s))
    ELSE data

RECURSIVE LowercaseKeysToo(_, _, _)
\* mutant: the keys of a dict are lowercased with its values
LowercaseKeysToo(data, skip_paths, path) ==
    IF path \in skip_paths THEN data
    ELSE IF data.t = "dict"
    THEN [data EXCEPT !.c = [i \in 1..Len(data.c) |->
             [k |-> Lower(data.c[i].k),
              v |-> LowercaseKeysToo(data.c[i].v, skip_paths,
                                     DictChildPath(path, data.c[i].k))]]]
    ELSE IF data.t = "list"
    THEN [data EXCEPT !.c = [i \in 1..Len(data.c) |->
             [k |-> <<>>,
              v |-> LowercaseKeysToo(data.c[i].v, skip_paths,
                                     ListChildPath(path, i - 1))]]]
    ELSE IF data.t = "str"
    THEN JStr(Lower(data.s))
    ELSE data

RECURSIVE _lowercase_record(_, _, _)
_lowercase_record(data, skip_paths, path) ==
    IF path \in skip_paths THEN data
    ELSE IF data.t = "dict"
    THEN [data EXCEPT !.c = [i \in 1..Len(data.c) |->
             [k |-> data.c[i].k,
              v |-> _lowercase_record(data.c[i].v, skip_paths,
                                      DictChildPath(path, data.c[i].k))]]]
    ELSE IF data.t = "list"
    THEN [data EXCEPT !.c = [i \in 1..Len(data.c) |->
             [k |-> <<>>,
              v |-> _lowercase_record(data.c[i].v, skip_paths,
                                      ListChildPath(path, i - 1))]]]
    ELSE IF data.t = "str"
    THEN JStr(Lower(data.s))
    ELSE data

-----------------------------------------------------------------------------
(* Python str helpers.  None is JNull, a str is JStr(chars).                *)

\* characters that have no ASCII spelling, each one character of a str
EmDash == "U+2014"
CCedilla == "U+00E7"
OTilde == "U+00F5"

\* \s of the re module and of str.split() / str.strip()
WhitespaceChars == {" ", "\t", "\n", "\r", "\f"}
\* [\s,;]
IdSeparatorChars == WhitespaceChars \cup {",", ";"}

\* x or y
Or(x, y) == IF IsFalsy(x) THEN y ELSE x

\* sep.join(parts), parts a sequence of character sequences
RECURSIVE Join(_, _)
Join(sep, parts) ==
    IF parts = <<>> THEN <<>>
    ELSE IF Len(parts) = 1 THEN parts[1]
    ELSE parts[1] \o sep \o Join(sep, Tail(parts))

\* the maximal runs of characters outside seps: [r for r in re.split(seps+, str) if r],
\* and str.split() when seps is the whitespace
RECURSIVE SplitRuns(_, _)
SplitRuns(str, seps) ==
    IF str = <<>> THEN <<>>
    ELSE IF Head(str) \in seps THEN SplitRuns(Tail(str), seps)
    ELSE LET stops == {i \in 1..Len(str) : str[i] \in seps}
             n == IF stops = {} THEN Len(str)
                  ELSE (CHOOSE i \in stops : \A j \in stops : i <= j) - 1
         IN  <<SubSeq(str, 1, n)>> \o SplitRuns(SubSeq(str, n + 1, Len(str)), seps)

\* str.strip()
Strip(str) ==
    LET keep == {i \in 1..Len(str) : str[i] \notin WhitespaceChars}
    IN  IF keep = {} THEN <<>>
        ELSE SubSeq(str,
                    CHOOSE i \in keep : \A j \in 1..(i - 1) : str[j] \in WhitespaceChars,
                    CHOOSE i \in keep :
                        \A j \in (i + 1)..Len(str) : str[j] \in WhitespaceChars)

\* " ".join(" ".join(el.itertext()).split()).strip()
CollapseWhitespace(str) == Strip(Join(<<" ">>, SplitRuns(str, WhitespaceChars)))

\* An XML element is given by the text of its itertext() joined by " ", as JStr;
\* an element that find() does not find is JNull.  An attribute is JStr or JNull.
_txt(el) ==
    IF el = JNull THEN JNull
    ELSE LET text == CollapseWhitespace(el.s)
         IN  IF text = <<>> THEN JNull ELSE JStr(text)

\* _clean_text(el), el an element that exists
_clean_text(el) == CollapseWhitespace(el.s)

\* (el.text or "").strip() if el is not None and el.text else None
StrippedTextOrNone(el) ==
    IF el # JNull /\ el.s # <<>> THEN JStr(Strip(el.s)) ELSE JNull

\* (attr or "").strip()
StrippedAttr(attr) == IF IsFalsy(attr) THEN <<>> ELSE Strip(attr.s)

\* d.get(key), d the entries of a dict
DictGet(entries, key) ==
    IF \E i \in 1..Len(entries) : entries[i].k = key
    THEN entries[CHOOSE i \in 1..Len(entries) : entries[i].k = key].v
    ELSE JNull

\* d[key] = value: a known key keeps its place, a new key goes last
DictSet(entries, key, value) ==
    IF \E i \in 1..Len(entries) : entries[i].k = key
    THEN [i \in 1..Len(entries) |->
             IF entries[i].k = key THEN [k |-> key, v |-> value] ELSE entries[i]]
    ELSE Append(entries, [k |-> key, v |-> value])

\* key in d
DictHas(entries, key) == \E i \in 1..Len(entries) : entries[i].k = key

\* the concatenation of a sequence of sequences
RECURSIVE Flatten(_)
Flatten(seqs) == IF seqs = <<>> THEN <<>> ELSE Head(seqs) \o Flatten(Tail(seqs))

\* the items of a list as a sequence of values
ListItems(lst) == [i \in 1..Len(lst.c) |-> lst.c[i].v]

\* the sequence xs without the values seen earlier in it (first-seen order)
RECURSIVE Dedupe(_)
Dedupe(xs) ==
    IF xs = <<>> THEN <<>>
    ELSE LET front == Dedupe(SubSeq(xs, 1, Len(xs) - 1))
             last == xs[Len(xs)]
         IN  IF \E i \in 1..Len(front) : front[i] = last THEN front
             ELSE Append(front, last)

\* [x for x in xs if x]
Truthy(v) == ~IsFalsy(v)
IsNonEmptyStr(str) == str # <<>>

-----------------------------------------------------------------------------
(* _extract_email_from_text:                                                *)
(* re.search(r"[A-Za-z0-9._%+-]+@[A-Za-z0-9.-]+\.[A-Za-z]{2,}", text)        *)

Letters == {UpperChars[i] : i \in 1..Len(UpperChars)}
               \cup {LowerChars[i] : i \in 1..Len(LowerChars)}
DigitSet == {DigitChars[i] : i \in 1..Len(DigitChars)}
EmailLocalChars == Letters \cup DigitSet \cup {".", "_", "%", "+", "-"}
EmailDomainChars == Letters \cup DigitSet \cup {".", "-"}
MinTldLen == 2

\* the last index of the run of characters of class cls that starts at i (i - 1 if none)
RunEnd(str, i, cls) ==
    LET stops == {j \in i..Len(str) : str[j] \notin cls}
    IN  IF stops = {} THEN Len(str)
        ELSE (CHOOSE j \in stops : \A h \in stops : j <= h) - 1

\* the index where the match that starts at i ends, 0 when no match starts at i
EmailMatchEnd(str, i) ==
    LET at == RunEnd(str, i, EmailLocalChars) + 1
        domEnd == RunEnd(str, at + 1, EmailDomainChars)
        dots == {d \in (at + 2)..domEnd :
                    /\ str[d] = "."
                    /\ d + MinTldLen <= Len(str)
                    /\ \A h \in 1..MinTldLen : str[d + h] \in Letters}
    IN  IF at > i /\ at <= Len(str) /\ str[at] = "@" /\ dots # {}
        THEN RunEnd(str, (CHOOSE d \in dots : \A h \in dots : d >= h) + 1, Letters)
        ELSE 0

\* mutant: the last address of the text instead of the first
ExtractLastEmail(text) ==
    IF IsFalsy(text) THEN JNull
    ELSE LET starts == {i \in 1..Len(text.s) : EmailMatchEnd(text.s, i) > 0}
         IN  IF starts = {} THEN JNull
             ELSE LET i == CHOOSE i \in starts :
                               \A j \in starts : EmailMatchEnd(text.s, i) >= EmailMatchEnd(text.s, j)
                                                 /\ (EmailMatchEnd(text.s, i) = EmailMatchEnd(text.s, j) => i <= j)
                  IN  JStr(SubSeq(text.s, i, EmailMatchEnd(text.s, i)))

_extract_email_from_text(text) ==
    IF IsFalsy(text) THEN JNull
    ELSE LET starts == {i \in 1..Len(text.s) : EmailMatchEnd(text.s, i) > 0}
         IN  IF starts = {} THEN JNull
             ELSE LET i == CHOOSE i \in starts : \A j \in starts : i <= j
                  IN  JStr(SubSeq(text.s, i, EmailMatchEnd(text.s, i)))

-----------------------------------------------------------------------------
(* The string literals of the program: K_x is the key "x" of a record,     *)
(* L_x another literal.                                                    *)

K_source_file == <<"s", "o", "u", "r", "c", "e", "_", "f", "i", "l", "e">>
K_article_type == <<"a", "r", "t", "i", "c", "l", "e", "_", "t", "y", "p", "e">>
K_article_title == <<"a", "r", "t", "i", "c", "l", "e", "_", "t", "i", "t", "l", "e">>
K_article_title_translations ==
    <<"a", "r", "t", "i", "c", "l", "e", "_", "t", "i", "t", "l", "e", "_", "t", "r",
     "a", "n", "s", "l", "a", "t", "i", "o", "n", "s">>
K_lang == <<"l", "a", "n", "g">>
K_title == <<"t", "i", "t", "l", "e">>
K_article_ids == <<"a", "r", "t", "i", "c", "l", "e", "_", "i", "d", "s">>
K_article_category ==
    <<"a", "r", "t", "i", "c", "l", "e", "_", "c", "a", "t", "e", "g", "o", "r", "y">>
K_journal_id == <<"j", "o", "u", "r", "n", "a", "l", "_", "i", "d">>
K_journal_title == <<"j", "o", "u", "r", "n", "a", "l", "_", "t", "i", "t", "l", "e">>
K_pub_dates == <<"p", "u", "b", "_", "d", "a", "t", "e", "s">>
K_pub_type == <<"p", "u", "b", "_", "t", "y", "p", "e">>
K_year == <<"y", "e", "a", "r">>
K_month == <<"m", "o", "n", "t", "h">>
K_day == <<"d", "a", "y">>
K_season == <<"s", "e", "a", "s", "o", "n">>
K_volume == <<"v", "o", "l", "u", "m", "e">>
K_issue == <<"i", "s", "s", "u", "e">>
K_fpage == <<"f", "p", "a", "g", "e">>
K_lpage == <<"l", "p", "a", "g", "e">>
K_id == <<"i", "d">>
K_institution_original ==
    <<"i", "n", "s", "t", "i", "t", "u", "t", "i", "o", "n", "_", "o", "r", "i", "g",
     "i", "n", "a", "l">>
K_institution_normalized ==
    <<"i", "n", "s", "t", "i", "t", "u", "t", "i", "o", "n", "_", "n", "o", "r", "m",
     "a", "l", "i", "z", "e", "d">>
K_org_name == <<"o", "r", "g", "_", "n", "a", "m", "e">>
K_department_1 == <<"d", "e", "p", "a", "r", "t", "m", "e", "n", "t", "_", "1">>
K_department_2 == <<"d", "e", "p", "a", "r", "t", "m", "e", "n", "t", "_", "2">>
K_city == <<"c", "i", "t", "y">>
K_state == <<"s", "t", "a", "t", "e">>
K_country == <<"c", "o", "u", "n", "t", "r", "y">>
K_country_code == <<"c", "o", "u", "n", "t", "r", "y", "_", "c", "o", "d", "e">>
K_name == <<"n", "a", "m", "e">>
K_label == <<"l", "a", "b", "e", "l">>
K_text == <<"t", "e", "x", "t">>
K_note_flat == <<"n", "o", "t", "e", "_", "f", "l", "a", "t">>
K_given == <<"g", "i", "v", "e", "n">>
K_surname == <<"s", "u", "r", "n", "a", "m", "e">>
K_email == <<"e", "m", "a", "i", "l">>
K_email_from_note ==
    <<"e", "m", "a", "i", "l", "_", "f", "r", "o", "m", "_", "n", "o", "t", "e">>
K_orcid == <<"o", "r", "c", "i", "d">>
K_roles == <<"r", "o", "l", "e", "s">>
K_affiliations == <<"a", "f", "f", "i", "l", "i", "a", "t", "i", "o", "n", "s">>
K_affiliation_flat ==
    <<"a", "f", "f", "i", "l", "i", "a", "t", "i", "o", "n", "_", "f", "l", "a", "t">>
K_nota_author == <<"n", "o", "t", "a", "_", "a", "u", "t", "h", "o", "r">>
K_author_flat == <<"a", "u", "t", "h", "o", "r", "_", "f", "l", "a", "t">>
K_authors == <<"a", "u", "t", "h", "o", "r", "s">>
K_abstracts == <<"a", "b", "s", "t", "r", "a", "c", "t", "s">>
K_keywords == <<"k", "e", "y", "w", "o", "r", "d", "s">>
K_full_text == <<"f", "u", "l", "l", "_", "t", "e", "x", "t">>
K_full_text_sections ==
    <<"f", "u", "l", "l", "_", "t", "e", "x", "t", "_", "s", "e", "c", "t", "i", "o",
     "n", "s">>
K_paragraphs == <<"p", "a", "r", "a", "g", "r", "a", "p", "h", "s">>
K_references == <<"r", "e", "f", "e", "r", "e", "n", "c", "e", "s">>
K_mixed_citation ==
    <<"m", "i", "x", "e", "d", "_", "c", "i", "t", "a", "t", "i", "o", "n">>
K_structured == <<"s", "t", "r", "u", "c", "t", "u", "r", "e", "d">>
K_publication_type ==
    <<"p", "u", "b", "l", "i", "c", "a", "t", "i", "o", "n", "_", "t", "y", "p", "e">>
K_given_names == <<"g", "i", "v", "e", "n", "_", "n", "a", "m", "e", "s">>
K_source == <<"s", "o", "u", "r", "c", "e">>
K_comment == <<"c", "o", "m", "m", "e", "n", "t">>
K_publisher_loc == <<"p", "u", "b", "l", "i", "s", "h", "e", "r", "_", "l", "o", "c">>
K_publisher_name ==
    <<"p", "u", "b", "l", "i", "s", "h", "e", "r", "_", "n", "a", "m", "e">>
K_page_range == <<"p", "a", "g", "e", "_", "r", "a", "n", "g", "e">>
K_doi == <<"d", "o", "i">>
K_uri == <<"u", "r", "i">>
K_pmid == <<"p", "m", "i", "d">>
K_pmcid == <<"p", "m", "c", "i", "d">>
K_raw_xml == <<"r", "a", "w", "_", "x", "m", "l">>
K_error == <<"e", "r", "r", "o", "r">>
L_aff_prefix == <<"a", "f", "f", "_">>
L_und == <<"u", "n", "d">>
L_author == <<"a", "u", "t", "h", "o", "r">>
L_orcid_prefix == <<"O", "R", "C", "I", "D", ":", " ">>
L_email_prefix == <<"E", "m", "a", "i", "l", ":", " ">>
L_affs_prefix == <<"A", "f", "i", "l", "i", "a", CCedilla, OTilde, "e", "s", ":", " ">>
L_notes_prefix == <<"N", "o", "t", "a", "s", ":", " ">>
L_bar_sep == <<" ", "|", " ">>
L_dash_sep == <<" ", EmDash, " ">>
L_comma_sep == <<",", " ">>
L_para_sep == <<"\n", "\n">>
L_colon_sep == <<":", " ">>
L_space == <<" ">>

-----------------------------------------------------------------------------
(* The document.  parse_xml_to_record reads the parsed tree through find,  *)
(* findall, get and itertext; a document is given by what those calls      *)
(* return on it.  An element found is JStr(text of its itertext), an       *)
(* element not found JNull; an attribute is JStr or JNull.                 *)
(*                                                                         *)
(* <aff>:     [id, loose, original, normalized, orgname, orgdiv1, orgdiv2, *)
(*             city, state, country, country_code]                         *)
(*            (loose is the text outside the sub-elements, e.g. a label;   *)
(*            the sub-elements come in this order in the document)         *)
(* <fn>:      [id, label, loose, ps]                                       *)
(* <contrib>: [contrib_type, given, surname, email, orcid, roles,          *)
(*             xref_aff, xref_fn, affs]   (xref_* are the rid attributes,  *)
(*            affs the <aff> elements that are children of the contrib)    *)
(***************************************************************************)

Entry(key, value) == [k |-> key, v |-> value]

\* the texts of the elements of els that exist
PresentTexts(els) ==
    LET present == SelectSeq(els, LAMBDA el : el # JNull)
    IN  [i \in 1..Len(present) |-> present[i].s]

\* the <aff> element itself, as seen by _txt(aff)
AffElement(aff) ==
    JStr(Join(L_space, PresentTexts(<<aff.loose, aff.original, aff.normalized,
                                      aff.orgname, aff.orgdiv1, aff.orgdiv2,
                                      aff.city, aff.state, aff.country>>)))

\* country_el.get("country") if country_el is not None else None
CountryCode(aff) == IF aff.country # JNull THEN aff.country_code ELSE JNull

\* the record stored in aff_map for one <aff> of article-meta
AffMapRecord(aff) ==
    LET name_all == _txt(AffElement(aff))
    IN  _prune(JDict(<<
            Entry(K_id, aff.id),
            Entry(K_institution_original, _txt(aff.original)),
            Entry(K_institution_normalized, _txt(aff.normalized)),
            Entry(K_org_name, Or(Or(Or(_txt(aff.orgname), _txt(aff.normalized)),
                                    _txt(aff.original)), name_all)),
            Entry(K_department_1, _txt(aff.orgdiv1)),
            Entry(K_department_2, _txt(aff.orgdiv2)),
            Entry(K_city, _txt(aff.city)),
            Entry(K_state, _txt(aff.state)),
            Entry(K_country, _txt(aff.country)),
            Entry(K_country_code, CountryCode(aff)),
            Entry(K_name, name_all)>>))

\* aff_id or f"aff_{len(aff_map)+1}"
AffMapKey(affs_by_id, aff) ==
    IF Truthy(aff.id) THEN aff.id.s
    ELSE L_aff_prefix \o IntToStr(Len(affs_by_id) + 1)

\* one turn of the loop over article_meta.findall(".//aff")
ScanAff(affs_by_id, aff) == DictSet(affs_by_id, AffMapKey(affs_by_id, aff), AffMapRecord(aff))

\* the <fn> element itself, as seen by _txt(fn)
FnElement(fn) == JStr(Join(L_space, PresentTexts(<<fn.label, fn.loose>> \o fn.ps)))

\* one turn of the loop over article_meta.findall(".//author-notes//fn")
ScanFn(notes_by_id, fn) ==
    IF ~Truthy(fn.id) THEN notes_by_id
    ELSE LET label == _txt(fn.label)
             all_ps == [i \in 1..Len(fn.ps) |-> _txt(fn.ps[i])]
             ps == SelectSeq(all_ps, Truthy)
             text == IF ps # <<>>
                     THEN JStr(Join(L_space, [i \in 1..Len(ps) |-> ps[i].s]))
                     ELSE _txt(FnElement(fn))
             flat_parts == SelectSeq(<<label, text>>, Truthy)
             note_flat == JStr(Join(L_space,
                                    [i \in 1..Len(flat_parts) |-> flat_parts[i].s]))
         IN  DictSet(notes_by_id, fn.id.s,
                     JDict(<<Entry(K_id, fn.id),
                             Entry(K_label, label),
                             Entry(K_text, text),
                             Entry(K_note_flat, Or(note_flat, JNull))>>))

RECURSIVE ScanAll(_, _, _)
\* a whole scan loop: Step folded over the elements, from the table so far
ScanAll(Step(_, _), table, els) ==
    IF els = <<>> THEN table
    ELSE ScanAll(Step, Step(table, Head(els)), Tail(els))

-----------------------------------------------------------------------------
(* Authors *)

\* mutant: the ids are not de-duplicated
RefIdsKeepRepeats(rids) ==
    LET stripped == [i \in 1..Len(rids) |-> StrippedAttr(rids[i])]
        raw_ids == SelectSeq(stripped, IsNonEmptyStr)
    IN  Flatten([i \in 1..Len(raw_ids) |-> SplitRuns(raw_ids[i], IdSeparatorChars)])

\* the ids named by the rid attributes of the xrefs of one type
RefIds(rids) ==
    LET stripped == [i \in 1..Len(rids) |-> StrippedAttr(rids[i])]
        raw_ids == SelectSeq(stripped, IsNonEmptyStr)
    IN  Dedupe(Flatten([i \in 1..Len(raw_ids) |->
                           SplitRuns(raw_ids[i], IdSeparatorChars)]))

\* the record of an <aff> that is a child of the contrib
InlineAffRecord(aff) ==
    LET name_all == _txt(AffElement(aff))
    IN  _prune(JDict(<<
            Entry(K_id, JNull),
            Entry(K_institution_original, _txt(aff.original)),
            Entry(K_institution_normalized, _txt(aff.normalized)),
            Entry(K_org_name, Or(_txt(aff.orgname), name_all)),
            Entry(K_department_1, _txt(aff.orgdiv1)),
            Entry(K_department_2, _txt(aff.orgdiv2)),
            Entry(K_city, _txt(aff.city)),
            Entry(K_state, _txt(aff.state)),
            Entry(K_country, _txt(aff.country)),
            Entry(K_country_code, CountryCode(aff)),
            Entry(K_name, name_all)>>))

\* [table.get(id) for id in ids if table.get(id)]
Resolve(table, ids) ==
    LET found == [i \in 1..Len(ids) |-> DictGet(table, ids[i])]
    IN  SelectSeq(found, Truthy)

\* mutant: the inline affiliations are put before the resolved ones
AffObjsInlineFirst(c, affs_by_id) ==
    [i \in 1..Len(c.affs) |-> InlineAffRecord(c.affs[i])]
        \o Resolve(affs_by_id, RefIds(c.xref_aff))

\* aff_objs before "or None": resolved by id first, then the inline ones
AffObjs(c, affs_by_id) ==
    Resolve(affs_by_id, RefIds(c.xref_aff))
        \o [i \in 1..Len(c.affs) |-> InlineAffRecord(c.affs[i])]

AffFlatKeys == <<K_org_name, K_department_1, K_department_2, K_city, K_state, K_country>>

\* mutant: only the organisation name is kept
AffToFlatOrgOnly(aff) ==
    LET vals == <<DictGet(aff.c, K_org_name)>>
        truthy == SelectSeq(vals, Truthy)
        parts == [i \in 1..Len(truthy) |-> truthy[i].s]
    IN  Join(L_comma_sep, Dedupe(parts))

_aff_to_flat(aff) ==
    LET vals == [i \in 1..Len(AffFlatKeys) |-> DictGet(aff.c, AffFlatKeys[i])]
        truthy == SelectSeq(vals, Truthy)
        parts == [i \in 1..Len(truthy) |-> truthy[i].s]
    IN  Join(L_comma_sep, Dedupe(parts))

\* a list of values, or None when it is empty: xs or None
ListOrNone(xs) == IF xs = <<>> THEN JNull ELSE JList(xs)
\* a string, or None when it is empty
StrOrNone(chars) == IF chars = <<>> THEN JNull ELSE JStr(chars)

\* the first address found in the text of the notes, in their order
EmailFromNotes(notes) ==
    LET found == [i \in 1..Len(notes) |->
                     _extract_email_from_text(DictGet(notes[i].c, K_text))]
        hits == SelectSeq(found, Truthy)
    IN  IF hits = <<>> THEN JNull ELSE hits[1]

\* mutant: the address of the note is preferred
FinalEmailNoteFirst(email, email_from_note) == Or(email_from_note, email)

\* final_email = email or email_from_note
FinalEmail(email, email_from_note) == Or(email, email_from_note)

\* c.get("contrib-type") and c.get("contrib-type") != "author"
IsSkippedContrib(c) == Truthy(c.contrib_type) /\ c.contrib_type.s # L_author

\* the body of the loop over contrib-group/contrib for a contrib that is kept
BuildAuthor(c, affs_by_id, notes_by_id) ==
    LET given == _txt(c.given)
        surname == _txt(c.surname)
        email == _txt(c.email)
        orcid == StrippedTextOrNone(c.orcid)
        all_roles == [i \in 1..Len(c.roles) |-> _txt(c.roles[i])]
        roles == SelectSeq(all_roles, Truthy)
        aff_seq == AffObjs(c, affs_by_id)
        nota_seq == Resolve(notes_by_id, RefIds(c.xref_fn))
        email_from_note == EmailFromNotes(nota_seq)
        final_email == FinalEmail(email, email_from_note)
        truthy_affs == SelectSeq(aff_seq, Truthy)
        all_flat == [i \in 1..Len(truthy_affs) |-> _aff_to_flat(truthy_affs[i])]
        flat_list == SelectSeq(all_flat, IsNonEmptyStr)
        name_parts == SelectSeq(<<given, surname>>, Truthy)
        full_name == Strip(Join(L_space,
                                [i \in 1..Len(name_parts) |-> name_parts[i].s]))
        all_notes_flat == [i \in 1..Len(nota_seq) |->
                              DictGet(nota_seq[i].c, K_note_flat)]
        truthy_notes_flat == SelectSeq(all_notes_flat, Truthy)
        notes_flat == [i \in 1..Len(truthy_notes_flat) |-> truthy_notes_flat[i].s]
        parts_author_flat ==
            (IF full_name # <<>> THEN <<full_name>> ELSE <<>>)
            \o (IF Truthy(orcid) THEN <<L_orcid_prefix \o orcid.s>> ELSE <<>>)
            \o (IF Truthy(final_email) THEN <<L_email_prefix \o final_email.s>>
                ELSE <<>>)
            \o (IF flat_list # <<>>
                THEN <<L_affs_prefix \o Join(L_bar_sep, flat_list)>> ELSE <<>>)
            \o (IF notes_flat # <<>>
                THEN <<L_notes_prefix \o Join(L_bar_sep, notes_flat)>> ELSE <<>>)
        author_flat == IF parts_author_flat # <<>>
                       THEN JStr(Join(L_dash_sep, parts_author_flat)) ELSE JNull
    IN  _prune(JDict(<<
            Entry(K_given, given),
            Entry(K_surname, surname),
            Entry(K_email, Or(final_email, JNull)),
            Entry(K_email_from_note, Or(email_from_note, JNull)),
            Entry(K_orcid, Or(orcid, JNull)),
            Entry(K_roles, ListOrNone(roles)),
            Entry(K_affiliations, ListOrNone(aff_seq)),
            Entry(K_affiliation_flat,
                  ListOrNone([i \in 1..Len(flat_list) |-> JStr(flat_list[i])])),
            Entry(K_nota_author, ListOrNone(nota_seq)),
            Entry(K_author_flat, author_flat)>>))

\* one turn of the loop over contrib-group/contrib
AddAuthor(built, c, affs_by_id, notes_by_id) ==
    IF IsSkippedContrib(c) THEN built
    ELSE Append(built, BuildAuthor(c, affs_by_id, notes_by_id))

-----------------------------------------------------------------------------
(* The other fields of the record.  The document gives                     *)
(*   path, xml_text, fails ("none", or the call of lines 192-194 that      *)
(*   raises: "read_bytes", "fromstring", "nsmap"), article_type,           *)
(*   has_title_group, article_title, trans_title_groups [lang,             *)
(*   trans_title, article_title], article_id_els [pub_id_type, pubid_type, *)
(*   text], has_cat_group, subject, has_journal_meta, journal_id,          *)
(*   journal_title, pub_date_els [pub_type, year, month, day, season],     *)
(*   volume, issue, fpage, lpage, aff_els (the <aff> of article-meta that  *)
(*   are outside the contribs, which come after the contrib-group),        *)
(*   fn_els, contrib_els, abstract_els [lang, text], kwd_group_els [lang,  *)
(*   kwds], has_body, sec_els [title, ps], body_ps, has_ref_list, ref_els  *)
(*   [id, mixed, text, has_ec, ec].                                        *)

\* a key with its value, or nothing: "if cond: record[key] = value"
EntryIf(cond, key, value) == IF cond THEN <<Entry(key, value)>> ELSE <<>>

TranslationRecord(alt) ==
    _prune(JDict(<<Entry(K_lang, alt.lang),
                   Entry(K_title, Or(_txt(alt.trans_title), _txt(alt.article_title)))>>))

\* one turn of the loop over article-id
AddArticleId(article_ids, aid) ==
    LET id_type == Or(aid.pub_id_type, aid.pubid_type)
        val == StrippedAttr(aid.text)
    IN  IF Truthy(id_type) /\ val # <<>>
        THEN DictSet(article_ids, id_type.s, JStr(val))
        ELSE article_ids

\* one turn of the loop over pub-date
AddPubDate(pub_dates, pd) ==
    LET when == _prune(JDict(<<Entry(K_pub_type, pd.pub_type),
                               Entry(K_year, _txt(pd.year)),
                               Entry(K_month, _txt(pd.month)),
                               Entry(K_day, _txt(pd.day)),
                               Entry(K_season, _txt(pd.season))>>))
    IN  IF Truthy(when) THEN Append(pub_dates, when) ELSE pub_dates

\* record as it is when the affiliation scan starts (lines 196-271)
HeadFields(d) ==
    LET translations == [i \in 1..Len(d.trans_title_groups) |->
                            TranslationRecord(d.trans_title_groups[i])]
        article_ids == ScanAll(AddArticleId, <<>>, d.article_id_els)
        pub_dates == ScanAll(AddPubDate, <<>>, d.pub_date_els)
    IN  <<Entry(K_source_file, JStr(d.path))>>
        \o EntryIf(Truthy(d.article_type), K_article_type, d.article_type)
        \o EntryIf(d.has_title_group, K_article_title, _txt(d.article_title))
        \o EntryIf(d.has_title_group /\ translations # <<>>,
                   K_article_title_translations, JList(translations))
        \o EntryIf(article_ids # <<>>, K_article_ids, JDict(article_ids))
        \o EntryIf(d.has_cat_group, K_article_category, _txt(d.subject))
        \o EntryIf(d.has_journal_meta /\ Truthy(_txt(d.journal_id)),
                   K_journal_id, _txt(d.journal_id))
        \o EntryIf(d.has_journal_meta /\ Truthy(_txt(d.journal_title)),
                   K_journal_title, _txt(d.journal_title))
        \o EntryIf(pub_dates # <<>>, K_pub_dates, JList(pub_dates))
        \o <<Entry(K_volume, _txt(d.volume)),
             Entry(K_issue, _txt(d.issue)),
             Entry(K_fpage, _txt(d.fpage)),
             Entry(K_lpage, _txt(d.lpage))>>

AbstractRecord(ab) ==
    _prune(JDict(<<Entry(K_lang, ab.lang), Entry(K_text, _txt(ab.text))>>))

\* str.split("-")[0]
BeforeFirstDash(str) ==
    LET dashes == {i \in 1..Len(str) : str[i] = "-"}
    IN  IF dashes = {} THEN str
        ELSE SubSeq(str, 1, (CHOOSE i \in dashes : \A j \in dashes : i <= j) - 1)

\* mutant: the region subtag is kept
KeywordLangWithRegion(kg) == Lower(Strip(Or(kg.lang, JStr(L_und)).s))

\* the key of a kwd-group: its language, lowercased, without region subtag
KeywordLang(kg) == BeforeFirstDash(Lower(Strip(Or(kg.lang, JStr(L_und)).s)))

\* one turn of the loop over kwd-group
AddKeywordGroup(kw_by_lang, kg) ==
    LET lang == KeywordLang(kg)
        all_kws == [i \in 1..Len(kg.kwds) |-> _txt(kg.kwds[i])]
        kws == SelectSeq(all_kws, Truthy)
        so_far == IF DictHas(kw_by_lang, lang) THEN ListItems(DictGet(kw_by_lang, lang))
                  ELSE <<>>
    IN  IF kws = <<>> THEN kw_by_lang
        ELSE DictSet(kw_by_lang, lang, JList(so_far \o kws))

\* one turn of the loop over body.findall(".//sec")
AddSection(sections, sec) ==
    LET title == IF sec.title # JNull THEN JStr(_clean_text(sec.title)) ELSE JNull
        all_paras == [i \in 1..Len(sec.ps) |-> _clean_text(sec.ps[i])]
        paras == SelectSeq(all_paras, IsNonEmptyStr)
    IN  IF Truthy(title) \/ paras # <<>>
        THEN Append(sections,
                    _prune(JDict(<<Entry(K_title, title),
                                   Entry(K_paragraphs,
                                         JList([i \in 1..Len(paras) |-> JStr(paras[i])]))>>)))
        ELSE sections

\* extract_full_text(root)[1]
FullTextSections(d) ==
    IF ~d.has_body THEN <<>> ELSE ScanAll(AddSection, <<>>, d.sec_els)

\* extract_full_text(root)[0]
FullText(d) ==
    IF ~d.has_body THEN JNull
    ELSE LET cleaned == [i \in 1..Len(d.body_ps) |-> _clean_text(d.body_ps[i])]
             all_paras == SelectSeq(cleaned, IsNonEmptyStr)
         IN  IF all_paras # <<>> THEN JStr(Join(L_para_sep, all_paras)) ELSE JNull

RefAuthorRecord(nm) ==
    _prune(JDict(<<Entry(K_surname, _txt(nm.surname)),
                   Entry(K_given_names, _txt(nm.given_names))>>))

\* structured, for a ref that has an element-citation ec
StructuredOf(ec) ==
    LET authors == [i \in 1..Len(ec.names) |-> RefAuthorRecord(ec.names[i])]
    IN  <<Entry(K_publication_type, ec.publication_type)>>
        \o EntryIf(ec.has_person_group /\ authors # <<>>, K_authors, JList(authors))
        \o <<Entry(K_article_title, _txt(ec.article_title)),
             Entry(K_source, _txt(ec.source)),
             Entry(K_comment, _txt(ec.comment)),
             Entry(K_publisher_loc, _txt(ec.publisher_loc)),
             Entry(K_publisher_name, _txt(ec.publisher_name)),
             Entry(K_year, _txt(ec.year)),
             Entry(K_volume, _txt(ec.volume)),
             Entry(K_issue, _txt(ec.issue)),
             Entry(K_fpage, _txt(ec.fpage)),
             Entry(K_lpage, _txt(ec.lpage)),
             Entry(K_page_range, _txt(ec.page_range)),
             Entry(K_doi, StrippedTextOrNone(ec.doi))>>
        \o EntryIf(ec.has_ext_link, K_uri, Or(ec.ext_href, _txt(ec.ext_text)))

\* mutant: a ref without element-citation gets an empty structured record that
\* survives as {"publication_type": ""}
StructuredAlways(ref) ==
    IF ref.has_ec THEN JDict(StructuredOf(ref.ec))
    ELSE JDict(<<Entry(K_publication_type, JStr(<<>>))>>)

\* structured or None
StructuredOrNone(ref) ==
    IF ref.has_ec /\ StructuredOf(ref.ec) # <<>> THEN JDict(StructuredOf(ref.ec))
    ELSE JNull

ReferenceRecord(ref) ==
    _prune(JDict(<<Entry(K_id, ref.id),
                   Entry(K_mixed_citation, Or(_txt(ref.mixed), _txt(ref.text))),
                   Entry(K_structured, StructuredOrNone(ref))>>))

References(d) ==
    IF ~d.has_ref_list THEN <<>>
    ELSE [i \in 1..Len(d.ref_els) |-> ReferenceRecord(d.ref_els[i])]

\* what is added to record after the authors (lines 466-585)
TailFields(d, with_raw) ==
    LET abstracts == [i \in 1..Len(d.abstract_els) |-> AbstractRecord(d.abstract_els[i])]
        kw_by_lang == ScanAll(AddKeywordGroup, <<>>, d.kwd_group_els)
        keywords == [i \in 1..Len(kw_by_lang) |-> JDict(<<kw_by_lang[i]>>)]
        full_text == FullText(d)
        sections == FullTextSections(d)
        references == References(d)
    IN  EntryIf(abstracts # <<>>, K_abstracts, JList(abstracts))
        \o EntryIf(kw_by_lang # <<>>, K_keywords, JList(keywords))
        \o EntryIf(Truthy(full_text), K_full_text, full_text)
        \o EntryIf(sections # <<>>, K_full_text_sections, JList(sections))
        \o EntryIf(references # <<>>, K_references, JList(references))
        \o EntryIf(with_raw, K_raw_xml, JStr(d.xml_text))

\* record just before line 588
AssembleRecord(d, built, with_raw) ==
    JDict(HeadFields(d)
          \o EntryIf(built # <<>>, K_authors, JList(built))
          \o TailFields(d, with_raw))

-----------------------------------------------------------------------------
(* The skip set of parse_xml_to_record (lines 600-646), from the pruned record *)

\* record.get(key, []) or []  as a sequence of values
ListField(rec, key) ==
    LET v == DictGet(rec.c, key)
    IN  IF v.t = "list" THEN ListItems(v) ELSE <<>>

IndexedPath(key, i) == ListChildPath(key, i - 1)

SkipAuthorKeys == {K_email, K_email_from_note, K_orcid}
SkipStructuredKeys == {K_doi, K_pmid, K_pmcid, K_uri}

\* mutant: full_text is forgotten
DefaultSkipPathsNoFullText(rec) ==
    {K_source_file}
    \cup {IndexedPath(K_abstracts, i) \o <<".">> \o K_text
            : i \in 1..Len(ListField(rec, K_abstracts))}

DefaultSkipPaths(rec) ==
    {K_source_file}
    \cup {IndexedPath(K_abstracts, i) \o <<".">> \o K_text
            : i \in 1..Len(ListField(rec, K_abstracts))}
    \cup (IF DictHas(rec.c, K_full_text) THEN {K_full_text} ELSE {})
    \cup UNION {LET sec == ListField(rec, K_full_text_sections)[i]
                IN  IF sec.t = "dict" /\ DictGet(sec.c, K_paragraphs).t = "list"
                    THEN {IndexedPath(K_full_text_sections, i) \o <<".">>
                              \o IndexedPath(K_paragraphs, j)
                            : j \in 1..Len(DictGet(sec.c, K_paragraphs).c)}
                    ELSE {}
                : i \in 1..Len(ListField(rec, K_full_text_sections))}
    \cup (IF DictHas(rec.c, K_raw_xml) THEN {K_raw_xml} ELSE {})
    \cup {IndexedPath(K_authors, i) \o <<".">> \o key
            : i \in 1..Len(ListField(rec, K_authors)), key \in SkipAuthorKeys}
    \cup (IF DictGet(rec.c, K_article_ids).t = "dict"
          THEN {K_article_ids \o <<".">> \o DictGet(rec.c, K_article_ids).c[i].k
                  : i \in 1..Len(DictGet(rec.c, K_article_ids).c)}
          ELSE {})
    \cup {IndexedPath(K_references, i) \o <<".">> \o K_structured \o <<".">> \o key
            : i \in 1..Len(ListField(rec, K_references)), key \in SkipStructuredKeys}
    \cup UNION {{IndexedPath(K_authors, i) \o <<".">> \o IndexedPath(K_affiliations, j)
                     \o <<".">> \o K_country_code
                   : j \in 1..Len(ListField(ListField(rec, K_authors)[i],
                                            K_affiliations))}
                : i \in 1..Len(ListField(rec, K_authors))}

\* mutant: the record is lowercased whatever the mode
NormalizeAlwaysLower(rec, lower_mode) ==
    LET clean == _prune(rec)
    IN  _lowercase_record(clean, DefaultSkipPaths(clean), <<>>)

\* mutant: the skip set is computed from the record before it is pruned
NormalizeSkipBeforePrune(rec, lower_mode) ==
    LET clean == _prune(rec)
    IN  IF lower_mode
        THEN _lowercase_record(clean, DefaultSkipPaths(rec), <<>>)
        ELSE clean

\* lines 588-650: prune, then lowercase unless the mode is off
Normalize(rec, lower_mode) ==
    LET clean == _prune(rec)
    IN  IF lower_mode
        THEN _lowercase_record(clean, DefaultSkipPaths(clean), <<>>)
        ELSE clean

\* every <aff> under article-meta, in document order
AllAffEls(d) ==
    Flatten([i \in 1..Len(d.contrib_els) |-> d.contrib_els[i].affs]) \o d.aff_els

RECURSIVE AuthorsOf(_, _, _, _)
\* the loop over contrib-group/contrib
AuthorsOf(built, els, affs_by_id, notes_by_id) ==
    IF els = <<>> THEN built
    ELSE AuthorsOf(AddAuthor(built, Head(els), affs_by_id, notes_by_id), Tail(els),
                   affs_by_id, notes_by_id)

\* parse_xml_to_record on a document that parses
ParsedRecord(d, with_raw, lower_mode) ==
    LET aff_table == ScanAll(ScanAff, <<>>, AllAffEls(d))
        fn_table == ScanAll(ScanFn, <<>>, d.fn_els)
        authors == AuthorsOf(<<>>, d.contrib_els, aff_table, fn_table)
    IN  Normalize(AssembleRecord(d, authors, with_raw), lower_mode)

-----------------------------------------------------------------------------
(* The texts of the documents checked *)

T_Ana == <<"A", "n", "a">>
T_Silva == <<"S", "i", "l", "v", "a">>
T_Bo == <<"B", "o">>
T_Li == <<"L", "i">>
T_Ed == <<"E", "d">>
T_UniversidadeX ==
    <<"U", "n", "i", "v", "e", "r", "s", "i", "d", "a", "d", "e", " ", "X">>
T_Brasil == <<"B", "r", "a", "s", "i", "l">>
T_BR == <<"B", "R">>
T_USP == <<"U", "S", "P">>
T_UFBA == <<" ", "U", "F", "B", "A", " ">>
T_UnB == <<"U", "n", "B">>
T_aff1 == <<"a", "f", "f", "1">>
T_aff2 == <<"a", "f", "f", "2">>
T_aff_2 == <<"a", "f", "f", "_", "2">>
T_aff_1 == <<"a", "f", "f", "_", "1">>
T_aff1_aff1_aff2 ==
    <<"a", "f", "f", "1", " ", "a", "f", "f", "1", ",", "a", "f", "f", "2">>
T_aff2_semicolon == <<" ", "a", "f", "f", "2", ";", " ">>
T_fn1 == <<"f", "n", "1">>
T_fn2 == <<"f", "n", "2">>
T_fn2_fn1 == <<"f", "n", "2", " ", "f", "n", "1">>
T_star == <<"*">>
T_MailNote ==
    <<"M", "a", "i", "l", ":", " ", "N", "@", "y", ".", "o", "r", "g", " ", "o", "r",
     " ", "m", "@", "y", ".", "o", "r", "g">>
T_Deceased == <<"I", "n", " ", " ", "M", "e", "m", "o", "r", "i", "a", "m">>
T_Anon == <<"A", "n", "o", "n">>
T_ExplicitEmail == <<"E", "@", "x", ".", "o", "r", "g">>
T_NoteEmail == <<"N", "@", "y", ".", "o", "r", "g">>
T_Orcid == <<" ", "0", "0", "0", "0", "-", "0", "0", "0", "X", " ">>
T_editor == <<"e", "d", "i", "t", "o", "r">>
T_Role == <<"W", "r", "i", "t", "i", "n", "g">>
T_Abc == <<"A", "b", "c">>
T_Rev == <<"R", "e", "v">>
T_en == <<"e", "n">>
T_pt == <<"p", "t">>
T_Tt == <<"T", "t">>
T_doi == <<"d", "o", "i">>
T_DoiValue == <<"1", "0", ".", "1", "/", "X", "y">>
T_publisher_id == <<"p", "u", "b", "l", "i", "s", "h", "e", "r", "-", "i", "d">>
T_Pid == <<"S", "0", "1">>
T_Artigo == <<"A", "r", "t", "i", "g", "o">>
T_Rsp == <<"R", "s", "p">>
T_Revista == <<"R", "e", "v", "i", "s", "t", "a">>
T_epub == <<"e", "p", "u", "b">>
T_2020 == <<"2", "0", "2", "0">>
T_5 == <<"5">>
T_1 == <<"1">>
T_ResumoUm == <<"R", "e", "s", "u", "m", "o", " ", " ", "U", "m">>
T_pt_BR == <<"p", "t", "-", "B", "R">>
T_PT == <<" ", "P", "T">>
T_Saude == <<"S", "a", "u", "d", "e">>
T_Dor == <<"D", "o", "r">>
T_Kw == <<"K", "w">>
T_Intro == <<"I", "n", "t", "r", "o">>
T_Blank == <<" ", " ">>
T_B1 == <<"B", "1">>
T_B2 == <<"B", "2">>
T_MixedOne == <<"M", "i", "x", "e", "d", " ", "O", "n", "e">>
T_PlainTwo == <<"P", "l", "a", "i", "n", " ", "T", "w", "o">>
T_journal == <<"j", "o", "u", "r", "n", "a", "l">>
T_Souza == <<"S", "o", "u", "z", "a">>
T_J == <<"J">>
T_1999 == <<"1", "9", "9", "9">>
T_RefDoi == <<"1", "0", ".", "2", "/", "Z", "z">>
T_Href == <<"h", "t", "t", "p", ":", "/", "/", "X", ".", "o", "r", "g", "/", "A">>
T_Xml == <<"<", "A", "/", ">", "\n">>
T_PermissionError ==
    <<"P", "e", "r", "m", "i", "s", "s", "i", "o", "n", "E", "r", "r", "o", "r">>
T_Denied ==
    <<"P", "e", "r", "m", "i", "s", "s", "i", "o", "n", " ", "d", "e", "n", "i", "e",
     "d">>
T_XMLSyntaxError ==
    <<"X", "M", "L", "S", "y", "n", "t", "a", "x", "E", "r", "r", "o", "r">>
T_EmptyDocument ==
    <<"D", "o", "c", "u", "m", "e", "n", "t", " ", "i", "s", " ", "e", "m", "p", "t",
     "y">>

\* an <aff> with nothing in it
NoAff == [id |-> JNull, loose |-> JNull, original |-> JNull, normalized |-> JNull,
          orgname |-> JNull, orgdiv1 |-> JNull, orgdiv2 |-> JNull, city |-> JNull,
          state |-> JNull, country |-> JNull, country_code |-> JNull]

\* <aff id="aff1"><institution content-type="orgname">Universidade X</institution>
\*   <country country="BR">Brasil</country></aff>
AffUniX == [NoAff EXCEPT !.id = JStr(T_aff1), !.orgname = JStr(T_UniversidadeX),
                         !.country = JStr(T_Brasil), !.country_code = JStr(T_BR)]
\* <aff id="aff2">USP</aff>
AffUsp == [NoAff EXCEPT !.id = JStr(T_aff2), !.loose = JStr(T_USP)]
\* <aff> UFBA </aff>
AffUfba == [NoAff EXCEPT !.loose = JStr(T_UFBA)]
\* <aff id="aff_2">UnB</aff>
AffUnb == [NoAff EXCEPT !.id = JStr(T_aff_2), !.loose = JStr(T_UnB)]

AffChoices == {AffUniX, AffUsp, AffUfba, AffUnb}

\* <fn id="fn1"><label>*</label><p>Mail: N@y.org or m@y.org</p></fn>
FnMail == [id |-> JStr(T_fn1), label |-> JStr(T_star), loose |-> JNull,
           ps |-> <<JStr(T_MailNote)>>]
\* <fn id="fn2">In  Memoriam</fn>
FnMemoriam == [id |-> JStr(T_fn2), label |-> JNull, loose |-> JStr(T_Deceased),
               ps |-> <<>>]
\* <fn>Anon</fn>
FnNoId == [id |-> JNull, label |-> JNull, loose |-> JStr(T_Anon), ps |-> <<>>]

FnTable == <<FnMemoriam, FnNoId, FnMail>>

\* a <contrib> with nothing in it
NoContrib == [contrib_type |-> JNull, given |-> JNull, surname |-> JNull,
              email |-> JNull, orcid |-> JNull, roles |-> <<>>, xref_aff |-> <<>>,
              xref_fn |-> <<>>, affs |-> <<>>]

\* Ana Silva, <xref ref-type="aff" rid="aff1"/>
ContribAna == [NoContrib EXCEPT !.contrib_type = JStr(L_author),
                                !.given = JStr(T_Ana), !.surname = JStr(T_Silva),
                                !.xref_aff = <<JStr(T_aff1)>>]
\* Bo, <xref ref-type="aff" rid="aff1 aff1,aff2"/> <xref ref-type="aff" rid=" aff2; "/>
ContribBo == [NoContrib EXCEPT !.given = JStr(T_Bo),
                               !.xref_aff = <<JStr(T_aff1_aff1_aff2), JStr(T_aff2_semicolon)>>]
\* Li, <xref rid="aff2"/> and the inline <aff> UFBA </aff>, an ORCID and a role
ContribLi == [NoContrib EXCEPT !.surname = JStr(T_Li), !.xref_aff = <<JStr(T_aff2)>>,
                               !.affs = <<AffUfba>>, !.orcid = JStr(T_Orcid),
                               !.roles = <<JStr(T_Role), JStr(T_Blank)>>]
\* an email element, and a note that holds another address
ContribMail == [NoContrib EXCEPT !.given = JStr(T_Ana), !.email = JStr(T_ExplicitEmail),
                                 !.xref_fn = <<JStr(T_fn1)>>]
\* no email element; notes fn2 (no address) then fn1
ContribNotes == [NoContrib EXCEPT !.surname = JStr(T_Silva),
                                  !.xref_fn = <<JStr(T_fn2_fn1)>>]
\* contrib-type="editor"
ContribEditor == [NoContrib EXCEPT !.contrib_type = JStr(T_editor), !.given = JStr(T_Ed),
                                   !.affs = <<AffUsp>>]

\* two inline <aff> with the same content
ContribTwin == [NoContrib EXCEPT !.given = JStr(T_Bo), !.affs = <<AffUfba, AffUfba>>]

ContribChoices == {ContribAna, ContribBo, ContribLi, ContribMail, ContribNotes,
                   ContribEditor, ContribTwin}

\* a document with nothing in it
BareDoc ==
    [path |-> <<"d", "/", "x", ".", "x", "m", "l">>, xml_text |-> T_Xml,
     fails |-> "none", article_type |-> JNull,
     has_title_group |-> FALSE, article_title |-> JNull, trans_title_groups |-> <<>>,
     article_id_els |-> <<>>, has_cat_group |-> FALSE, subject |-> JNull,
     has_journal_meta |-> FALSE, journal_id |-> JNull, journal_title |-> JNull,
     pub_date_els |-> <<>>, volume |-> JNull, issue |-> JNull, fpage |-> JNull,
     lpage |-> JNull, aff_els |-> <<>>, fn_els |-> <<>>, contrib_els |-> <<>>,
     abstract_els |-> <<>>, kwd_group_els |-> <<>>, has_body |-> FALSE,
     sec_els |-> <<>>, body_ps |-> <<>>, has_ref_list |-> FALSE, ref_els |-> <<>>]

\* the minimal document: a title, one abstract in "pt", no body
MinimalDoc ==
    [BareDoc EXCEPT !.has_title_group = TRUE, !.article_title = JStr(T_Abc),
                    !.abstract_els = <<[lang |-> JStr(T_pt), text |-> JStr(T_ResumoUm)]>>]

NoCitation ==
    [publication_type |-> JNull, has_person_group |-> FALSE, names |-> <<>>,
     article_title |-> JNull, source |-> JNull, comment |-> JNull,
     publisher_loc |-> JNull, publisher_name |-> JNull, year |-> JNull,
     volume |-> JNull, issue |-> JNull, fpage |-> JNull, lpage |-> JNull,
     page_range |-> JNull, doi |-> JNull, has_ext_link |-> FALSE,
     ext_href |-> JNull, ext_text |-> JNull]

JournalCitation ==
    [NoCitation EXCEPT !.publication_type = JStr(T_journal), !.has_person_group = TRUE,
                       !.names = <<[surname |-> JStr(T_Souza), given_names |-> JStr(T_J)]>>,
                       !.source = JStr(T_Revista), !.year = JStr(T_1999),
                       !.doi = JStr(T_RefDoi), !.has_ext_link = TRUE,
                       !.ext_href = JStr(T_Href)]

\* a document with every region filled, some of it blank
RichDoc ==
    [BareDoc EXCEPT
        !.article_type = JStr(T_Rev),
        !.has_title_group = TRUE, !.article_title = JStr(T_Abc),
        !.trans_title_groups = <<[lang |-> JStr(T_en), trans_title |-> JStr(T_Tt),
                                  article_title |-> JNull]>>,
        !.article_id_els = <<[pub_id_type |-> JStr(T_doi), pubid_type |-> JNull,
                              text |-> JStr(T_DoiValue)],
                             [pub_id_type |-> JStr(T_publisher_id), pubid_type |-> JNull,
                              text |-> JStr(T_Pid)],
                             [pub_id_type |-> JNull, pubid_type |-> JNull,
                              text |-> JStr(T_Pid)]>>,
        !.has_cat_group = TRUE, !.subject = JStr(T_Artigo),
        !.has_journal_meta = TRUE, !.journal_id = JStr(T_Rsp),
        !.journal_title = JStr(T_Revista),
        !.pub_date_els = <<[pub_type |-> JNull, year |-> JNull, month |-> JNull,
                            day |-> JNull, season |-> JNull],
                           [pub_type |-> JStr(T_epub), year |-> JStr(T_2020),
                            month |-> JNull, day |-> JNull, season |-> JNull]>>,
        !.volume = JStr(T_5), !.fpage = JStr(T_1),
        !.abstract_els = <<[lang |-> JNull, text |-> JStr(T_Blank)],
                           [lang |-> JStr(T_pt), text |-> JStr(T_ResumoUm)]>>,
        !.kwd_group_els = <<[lang |-> JStr(T_pt_BR), kwds |-> <<JStr(T_Saude)>>],
                            [lang |-> JStr(T_en), kwds |-> <<JStr(T_Blank)>>],
                            [lang |-> JStr(T_PT), kwds |-> <<JStr(T_Saude), JStr(T_Dor)>>],
                            [lang |-> JNull, kwds |-> <<JStr(T_Kw)>>]>>,
        !.has_body = TRUE,
        !.sec_els = <<[title |-> JNull, ps |-> <<JStr(T_Blank)>>],
                      [title |-> JStr(T_Intro), ps |-> <<JStr(T_Abc), JStr(T_Blank)>>]>>,
        !.body_ps = <<JStr(T_Blank), JStr(T_Abc)>>,
        !.has_ref_list = TRUE,
        !.ref_els = <<[id |-> JStr(T_B1), mixed |-> JStr(T_MixedOne),
                       text |-> JStr(T_MixedOne), has_ec |-> TRUE, ec |-> JournalCitation],
                      [id |-> JStr(T_B2), mixed |-> JNull, text |-> JStr(T_PlainTwo),
                       has_ec |-> FALSE, ec |-> NoCitation]>>]

\* the minimal document with the one author Ana Silva of Universidade X, Brasil,
\* and no footnote
AnaDoc == [MinimalDoc EXCEPT !.aff_els = <<AffUniX>>, !.contrib_els = <<ContribAna>>]
\* the rich document with two authors
TwoAuthorDoc ==
    [RichDoc EXCEPT !.aff_els = <<AffUniX, AffUsp>>, !.fn_els = FnTable,
                    !.contrib_els = <<ContribMail, ContribLi>>]

-----------------------------------------------------------------------------
(* Bounded values: every value of at most MaxNodes nodes, lists of at most *)
(* MaxLen elements, dicts over the keys of KeySeq (in that order).         *)

MaxNodes == 4
MaxLen == 2
\* the documents checked have at most MaxAffs <aff> outside the contribs and at most
\* MaxContribs <contrib>
MaxAffs == 2
MaxContribs == 2

KeySeq == << <<"a">>, <<"b">> >>
PruneLeaves == {JNull, JInt0, JFalse, JStr(<<>>), JStr(<<"A", "b">>)}
LowerLeaves == {JStr(<<"A", "b">>), JInt0}

\* the strictly increasing index sequences over 1..n, i.e. the key choices
RECURSIVE IncSeqs(_, _)
IncSeqs(lo, n) ==
    {<<>>} \cup UNION {{<<i>> \o r : r \in IncSeqs(i + 1, n)} : i \in lo..n}

RECURSIVE TreesN(_, _), ForestsN(_, _, _)
\* the sequences of cnt values with n nodes in all
ForestsN(leaves, n, cnt) ==
    IF cnt = 0 THEN (IF n = 0 THEN {<<>>} ELSE {})
    ELSE UNION {{<<tr>> \o f : tr \in TreesN(leaves, m),
                               f \in ForestsN(leaves, n - m, cnt - 1)}
                : m \in 1..(n - (cnt - 1))}

\* the values of exactly n nodes
TreesN(leaves, n) ==
    IF n = 1 THEN leaves \cup {JList(<<>>), JDict(<<>>)}
    ELSE (UNION {{JList(f) : f \in ForestsN(leaves, n - 1, cnt)} : cnt \in 1..MaxLen})
         \cup
         (UNION {{JDict([i \in 1..Len(ks) |-> [k |-> KeySeq[ks[i]], v |-> f[i]]])
                    : f \in ForestsN(leaves, n - 1, Len(ks))}
                 : ks \in IncSeqs(1, Len(KeySeq)) \ {<<>>}})

TreesUpTo(leaves, n) == UNION {TreesN(leaves, m) : m \in 1..n}

-----------------------------------------------------------------------------
(* SpecPrune: _prune applied once and twice to every bounded value *)

PruneIdle == p_in = NoValue /\ p_once = NoValue /\ p_twice = NoValue
LowerIdle == l_in = NoValue /\ l_skip = {} /\ l_out = NoValue /\ l_again = NoValue

ParseIdle ==
    /\ doc = BareDoc /\ include_raw_xml = FALSE /\ lowercase = FALSE
    /\ todo = <<>> /\ aff_map = <<>> /\ fn_map = <<>> /\ contribs = <<>>
    /\ record = NoValue /\ pruned = NoValue /\ result = NoValue

\* no exception
NoException == [name |-> <<>>, message |-> <<>>]

WalkIdle ==
    /\ input_dir = {} /\ xml_files = <<>> /\ done = 0 /\ exc = NoException
    /\ fout = <<>> /\ total = 0

BulkIdle ==
    /\ ndjson = <<>> /\ index_name = <<>> /\ fin = <<>> /\ bulk = <<>> /\ bulk_n = 0

InitPrune ==
    /\ pc = "prune_input"
    /\ p_in \in TreesUpTo(PruneLeaves, MaxNodes)
    /\ p_once = NoValue
    /\ p_twice = NoValue
    /\ LowerIdle
    /\ ParseIdle
    /\ WalkIdle
    /\ BulkIdle

PruneOnce ==
    /\ pc = "prune_input"
    /\ p_once' = _prune(p_in)
    /\ pc' = "prune_once"
    /\ UNCHANGED <<p_in, p_twice, lowerVars, parseVars, walkVars, bulkVars>>

PruneTwice ==
    /\ pc = "prune_once"
    /\ p_twice' = _prune(p_once)
    /\ pc' = "prune_twice"
    /\ UNCHANGED <<p_in, p_once, lowerVars, parseVars, walkVars, bulkVars>>

NextPrune == PruneOnce \/ PruneTwice

SpecPrune == InitPrune /\ [][NextPrune]_vars

-----------------------------------------------------------------------------
(* SpecLower: _lowercase_record applied to every bounded record under      *)
(* every skip set made of paths of its nodes (the root's empty path and    *)
(* one path that names no node included).                                  *)

\* a position is the sequence of child indices leading from the root to a node
RECURSIVE Positions(_)
Positions(v) ==
    {<<>>} \cup UNION {{<<i>> \o q : q \in Positions(v.c[i].v)} : i \in 1..Len(v.c)}

RECURSIVE NodeAt(_, _)
NodeAt(v, pos) == IF pos = <<>> THEN v ELSE NodeAt(v.c[Head(pos)].v, Tail(pos))

\* the path _lowercase_record has accumulated when it reaches position pos
RECURSIVE CodePath(_, _, _)
CodePath(v, pos, path) ==
    IF pos = <<>> THEN path
    ELSE CodePath(v.c[Head(pos)].v, Tail(pos),
                  IF v.t = "dict" THEN DictChildPath(path, v.c[Head(pos)].k)
                  ELSE ListChildPath(path, Head(pos) - 1))

NodePaths(v) == {CodePath(v, pos, <<>>) : pos \in Positions(v)}
StrangerPath == <<"z">>

\* {"Ky": "Ab", "L": ["CD", 0, None, False]}: keys with capitals, and every kind of
\* scalar in a list
UpperKeyRecord ==
    JDict(<<[k |-> <<"K", "y">>, v |-> JStr(<<"A", "b">>)],
            [k |-> <<"L">>,
             v |-> JList(<<JStr(<<"C", "D">>), JInt0, JNull, JFalse>>)]>>)

InitLower ==
    /\ pc = "lower_input"
    /\ l_in \in TreesUpTo(LowerLeaves, MaxNodes) \cup {UpperKeyRecord}
    /\ l_skip \in SUBSET (NodePaths(l_in) \cup {StrangerPath})
    /\ l_out = NoValue
    /\ l_again = NoValue
    /\ PruneIdle
    /\ ParseIdle
    /\ WalkIdle
    /\ BulkIdle

LowercaseRecord ==
    /\ pc = "lower_input"
    /\ l_out' = _lowercase_record(l_in, l_skip, <<>>)
    /\ pc' = "lower_done"
    /\ UNCHANGED <<l_in, l_skip, l_again, pruneVars, parseVars, walkVars, bulkVars>>

LowercaseAgain ==
    /\ pc = "lower_done"
    /\ l_again' = _lowercase_record(l_out, l_skip, <<>>)
    /\ pc' = "lower_again"
    /\ UNCHANGED <<l_in, l_skip, l_out, pruneVars, parseVars, walkVars, bulkVars>>

NextLower == LowercaseRecord \/ LowercaseAgain

SpecLower == InitLower /\ [][NextLower]_vars

-----------------------------------------------------------------------------
(* SpecParse: parse_xml_to_record on one document, loop turn by loop turn. *)
(* The documents: the minimal document with the author and affiliation     *)
(* lists of AuthorDocs, and the bare, minimal and rich documents with a    *)
(* few author lists under every mode.                                      *)

\* the sequences of at most n members of set
RECURSIVE SeqsUpTo(_, _)
SeqsUpTo(set, n) ==
    IF n = 0 THEN {<<>>}
    ELSE SeqsUpTo(set, n - 1)
         \cup {Append(q, x) : q \in {r \in SeqsUpTo(set, n - 1) : Len(r) = n - 1},
                              x \in set}

NoRepeats(q) == \A i, j \in 1..Len(q) : q[i] = q[j] => i = j

\* every list of at most MaxAffs different <aff> with at most one contrib, and
\* every list of at most MaxContribs contribs with two of the lists of <aff>
AuthorDocs ==
    {[MinimalDoc EXCEPT !.aff_els = affs, !.fn_els = FnTable, !.contrib_els = cs]
        : affs \in {q \in SeqsUpTo(AffChoices, MaxAffs) : NoRepeats(q)},
          cs \in SeqsUpTo(ContribChoices, 1)}
    \cup
    {[MinimalDoc EXCEPT !.aff_els = affs, !.fn_els = FnTable, !.contrib_els = cs]
        : affs \in {<<AffUniX, AffUsp>>, <<AffUnb>>},
          cs \in SeqsUpTo(ContribChoices, MaxContribs)}

FieldDocs ==
    {[base EXCEPT !.aff_els = <<AffUniX, AffUsp>>, !.fn_els = FnTable,
                  !.contrib_els = cs]
        : base \in {BareDoc, MinimalDoc, RichDoc},
          cs \in {<<>>, <<ContribAna>>, <<ContribMail, ContribLi>>}}

\* <ref id="B1"><mixed-citation>Mixed One</mixed-citation> and a journal citation
RefJournal == [id |-> JStr(T_B1), mixed |-> JStr(T_MixedOne), text |-> JStr(T_MixedOne),
               has_ec |-> TRUE, ec |-> JournalCitation]
\* <ref id="B2">Plain Two</ref>
RefPlain == [id |-> JStr(T_B2), mixed |-> JNull, text |-> JStr(T_PlainTwo),
             has_ec |-> FALSE, ec |-> NoCitation]
\* <ref id="B3"><label>Kw</label><mixed-citation>  </mixed-citation></ref>
RefBlankMixed == [id |-> JStr(<<"B", "3">>), mixed |-> JStr(T_Blank),
                  text |-> JStr(<<"K", "w", " ", " ", " ">>),
                  has_ec |-> FALSE, ec |-> NoCitation]
\* <ref id="B4"><mixed-citation>Abc</mixed-citation><element-citation><source>  </source>
\* </element-citation></ref>
RefBlankCitation == [id |-> JStr(<<"B", "4">>), mixed |-> JStr(T_Abc),
                     text |-> JStr(<<"A", "b", "c", " ", " ">>), has_ec |-> TRUE,
                     ec |-> [NoCitation EXCEPT !.source = JStr(T_Blank)]]
\* <ref id="B5"><element-citation publication-type="journal">..</element-citation></ref>
RefOnlyCitation == [id |-> JStr(<<"B", "5">>), mixed |-> JNull, text |-> JStr(T_Revista),
                    has_ec |-> TRUE,
                    ec |-> [NoCitation EXCEPT !.publication_type = JStr(T_journal),
                                              !.source = JStr(T_Revista)]]

RefChoices == {RefJournal, RefPlain, RefBlankMixed, RefBlankCitation, RefOnlyCitation}

\* the documents checked for their references have at most MaxRefs <ref>
MaxRefs == 2

ReferenceDocs ==
    {[MinimalDoc EXCEPT !.has_ref_list = TRUE, !.ref_els = refs]
        : refs \in SeqsUpTo(RefChoices, MaxRefs)}

\* <ref/>: no id, no text, no citation
RefNothing == [id |-> JNull, mixed |-> JNull, text |-> JStr(<<>>),
               has_ec |-> FALSE, ec |-> NoCitation]

\* documents with a <contrib> or a <ref> that leaves an empty record, which the
\* final _prune drops from its list, before one that leaves a record
ShiftDocs ==
    {[RichDoc EXCEPT !.aff_els = <<AffUniX, AffUsp>>, !.fn_els = FnTable,
                     !.contrib_els = cs, !.ref_els = refs]
        : cs \in {<<NoContrib, ContribAna>>, <<ContribMail, NoContrib, ContribLi>>},
          refs \in {<<RefNothing, RefJournal>>, <<RefPlain, RefNothing, RefJournal>>}}

\* <kwd-group xml:lang="pt-BR"><kwd>Saude</kwd></kwd-group>
KwdPtBr == [lang |-> JStr(T_pt_BR), kwds |-> <<JStr(T_Saude)>>]
\* <kwd-group xml:lang="en"><kwd>  </kwd></kwd-group>
KwdEnBlank == [lang |-> JStr(T_en), kwds |-> <<JStr(T_Blank)>>]
\* <kwd-group xml:lang=" PT"><kwd>Saude</kwd><kwd>Dor</kwd></kwd-group>
KwdPT == [lang |-> JStr(T_PT), kwds |-> <<JStr(T_Saude), JStr(T_Dor)>>]
\* <kwd-group><kwd>Kw</kwd></kwd-group>
KwdNoLang == [lang |-> JNull, kwds |-> <<JStr(T_Kw)>>]
\* <kwd-group xml:lang=" EN-us "><kwd>Dor</kwd><kwd>  </kwd></kwd-group>
KwdEnUs == [lang |-> JStr(<<" ", "E", "N", "-", "u", "s", " ">>),
            kwds |-> <<JStr(T_Dor), JStr(T_Blank)>>]

KwdGroupChoices == {KwdPtBr, KwdEnBlank, KwdPT, KwdNoLang, KwdEnUs}

\* the documents checked for their keywords have at most MaxGroups <kwd-group>
MaxGroups == 3

KeywordDocs ==
    {[MinimalDoc EXCEPT !.kwd_group_els = kgs] : kgs \in SeqsUpTo(KwdGroupChoices, MaxGroups)}

InitParse ==
    /\ pc = "parse_start"
    /\ \/ doc \in AuthorDocs \cup {AnaDoc} \cup KeywordDocs \cup ReferenceDocs
          /\ include_raw_xml = FALSE /\ lowercase \in BOOLEAN
       \/ doc \in FieldDocs /\ include_raw_xml \in BOOLEAN /\ lowercase \in BOOLEAN
    /\ todo = <<>> /\ aff_map = <<>> /\ fn_map = <<>> /\ contribs = <<>>
    /\ record = NoValue /\ pruned = NoValue /\ result = NoValue
    /\ PruneIdle
    /\ LowerIdle
    /\ WalkIdle
    /\ BulkIdle

\* mutant: aff_map is not created anew, the table of the document before stays
ParseHeadKeepsTable ==
    /\ pc = "parse_start"
    /\ record' = JDict(HeadFields(doc))
    /\ todo' = AllAffEls(doc)
    /\ pc' = "parse_affs"
    /\ UNCHANGED <<doc, include_raw_xml, lowercase, aff_map, fn_map, contribs,
                   pruned, result, pruneVars, lowerVars, walkVars, bulkVars>>

\* lines 196-276: the fields before the affiliations; aff_map = {}; the scan starts
ParseHead ==
    /\ pc = "parse_start"
    /\ record' = JDict(HeadFields(doc))
    /\ aff_map' = <<>>
    /\ todo' = AllAffEls(doc)
    /\ pc' = "parse_affs"
    /\ UNCHANGED <<doc, include_raw_xml, lowercase, fn_map, contribs,
                   pruned, result, pruneVars, lowerVars, walkVars, bulkVars>>

\* lines 276-304, one <aff>
ScanAffStep ==
    /\ pc = "parse_affs"
    /\ todo # <<>>
    /\ aff_map' = ScanAff(aff_map, Head(todo))
    /\ todo' = Tail(todo)
    /\ UNCHANGED <<pc, doc, include_raw_xml, lowercase, fn_map, contribs, record,
                   pruned, result, pruneVars, lowerVars, walkVars, bulkVars>>

\* line 307: the affiliation scan is over; fn_map = {}; the footnote scan starts
StartFnScan ==
    /\ pc = "parse_affs"
    /\ todo = <<>>
    /\ fn_map' = <<>>
    /\ todo' = doc.fn_els
    /\ pc' = "parse_fns"
    /\ UNCHANGED <<doc, include_raw_xml, lowercase, aff_map, contribs,
                   record, pruned, result, pruneVars, lowerVars, walkVars, bulkVars>>

\* lines 308-323, one <fn>
ScanFnStep ==
    /\ pc = "parse_fns"
    /\ todo # <<>>
    /\ fn_map' = ScanFn(fn_map, Head(todo))
    /\ todo' = Tail(todo)
    /\ UNCHANGED <<pc, doc, include_raw_xml, lowercase, aff_map, contribs, record,
                   pruned, result, pruneVars, lowerVars, walkVars, bulkVars>>

\* lines 326-327: the footnote scan is over; contribs = []; the loop over the
\* contribs starts
StartAuthors ==
    /\ pc = "parse_fns"
    /\ todo = <<>>
    /\ contribs' = <<>>
    /\ todo' = doc.contrib_els
    /\ pc' = "parse_authors"
    /\ UNCHANGED <<doc, include_raw_xml, lowercase, aff_map, fn_map,
                   record, pruned, result, pruneVars, lowerVars, walkVars, bulkVars>>

\* mutant: the inline <aff> of the contrib are stored in the table
AuthorStepStoresInline ==
    /\ pc = "parse_authors"
    /\ todo # <<>>
    /\ contribs' = AddAuthor(contribs, Head(todo), aff_map, fn_map)
    /\ aff_map' = ScanAll(ScanAff, aff_map, Head(todo).affs)
    /\ todo' = Tail(todo)
    /\ UNCHANGED <<pc, doc, include_raw_xml, lowercase, fn_map, record,
                   pruned, result, pruneVars, lowerVars, walkVars, bulkVars>>

\* lines 327-461, one <contrib>
AuthorStep ==
    /\ pc = "parse_authors"
    /\ todo # <<>>
    /\ contribs' = AddAuthor(contribs, Head(todo), aff_map, fn_map)
    /\ todo' = Tail(todo)
    /\ UNCHANGED <<pc, doc, include_raw_xml, lowercase, aff_map, fn_map, record,
                   pruned, result, pruneVars, lowerVars, walkVars, bulkVars>>

\* lines 463-585: authors, abstracts, keywords, full text, references, raw XML
FinishRecord ==
    /\ pc = "parse_authors"
    /\ todo = <<>>
    /\ record' = JDict(record.c
                       \o EntryIf(contribs # <<>>, K_authors, JList(contribs))
                       \o TailFields(doc, include_raw_xml))
    /\ pc' = "parse_assembled"
    /\ UNCHANGED <<doc, include_raw_xml, lowercase, todo, aff_map, fn_map, contribs,
                   pruned, result, pruneVars, lowerVars, walkVars, bulkVars>>

\* lines 588-650
NormalizeAndReturn ==
    /\ pc = "parse_assembled"
    /\ pruned' = _prune(record)
    /\ result' = Normalize(record, lowercase)
    /\ pc' = "parse_done"
    /\ UNCHANGED <<doc, include_raw_xml, lowercase, todo, aff_map, fn_map, contribs,
                   record, pruneVars, lowerVars, walkVars, bulkVars>>

NextParse ==
    \/ ParseHead
    \/ ScanAffStep
    \/ StartFnScan
    \/ ScanFnStep
    \/ StartAuthors
    \/ AuthorStep
    \/ FinishRecord
    \/ NormalizeAndReturn

SpecParse == InitParse /\ [][NextParse]_vars

\* SpecShift: parse_xml_to_record over the documents in which the final _prune
\* drops an item of a list, under every combination of the flags
InitShift ==
    /\ pc = "parse_start"
    /\ doc \in ShiftDocs
    /\ include_raw_xml \in BOOLEAN /\ lowercase \in BOOLEAN
    /\ todo = <<>> /\ aff_map = <<>> /\ fn_map = <<>> /\ contribs = <<>>
    /\ record = NoValue /\ pruned = NoValue /\ result = NoValue
    /\ PruneIdle
    /\ LowerIdle
    /\ WalkIdle
    /\ BulkIdle

SpecShift == InitShift /\ [][NextParse]_vars

-----------------------------------------------------------------------------
(* json.dumps(obj, ensure_ascii=False) *)

\* mutant: no character is escaped
JsonEscapeNothing(ch) == <<ch>>

\* the escapes of the characters that the texts of the documents can hold
JsonEscapeChar(ch) ==
    IF ch = "\"" THEN <<"\\", "\"">>
    ELSE IF ch = "\\" THEN <<"\\", "\\">>
    ELSE IF ch = "\n" THEN <<"\\", "n">>
    ELSE IF ch = "\r" THEN <<"\\", "r">>
    ELSE IF ch = "\t" THEN <<"\\", "t">>
    ELSE IF ch = "\f" THEN <<"\\", "f">>
    ELSE <<ch>>

JsonString(chars) ==
    <<"\"">> \o Flatten([i \in 1..Len(chars) |-> JsonEscapeChar(chars[i])]) \o <<"\"">>

RECURSIVE json_dumps(_)
json_dumps(v) ==
    IF v.t = "null" THEN <<"n", "u", "l", "l">>
    ELSE IF v.t = "bool" THEN <<"f", "a", "l", "s", "e">>
    ELSE IF v.t = "int" THEN v.s
    ELSE IF v.t = "str" THEN JsonString(v.s)
    ELSE IF v.t = "list"
    THEN <<"[">> \o Join(L_comma_sep, [i \in 1..Len(v.c) |-> json_dumps(v.c[i].v)])
             \o <<"]">>
    ELSE <<"{">>
             \o Join(L_comma_sep,
                     [i \in 1..Len(v.c) |->
                         JsonString(v.c[i].k) \o L_colon_sep \o json_dumps(v.c[i].v)])
             \o <<"}">>

-----------------------------------------------------------------------------
(* sorted(input_dir.rglob("*.xml")): paths compare by their parts, the     *)
(* parts as strings, the strings by code point.                            *)

\* a byte 0xFF of a file name, which is not UTF-8: os.fsdecode gives the lone
\* surrogate U+DCFF for it (surrogateescape)
SurrogateFF == "U+DCFF"
Surrogates == {SurrogateFF}

\* the characters of the paths, in code point order
PathChars ==
    <<".">> \o DigitChars \o UpperChars \o <<"_">> \o LowerChars \o <<SurrogateFF>>

Ord(ch) == CHOOSE i \in 1..Len(PathChars) : PathChars[i] = ch

\* a < b for two sequences compared item by item, as Python compares str and tuple
RECURSIVE SeqLess(_, _, _)
SeqLess(ItemLess(_, _), a, b) ==
    IF b = <<>> THEN FALSE
    ELSE IF a = <<>> THEN TRUE
    ELSE IF ItemLess(Head(a), Head(b)) THEN TRUE
    ELSE IF ItemLess(Head(b), Head(a)) THEN FALSE
    ELSE SeqLess(ItemLess, Tail(a), Tail(b))

CharLess(x, y) == Ord(x) < Ord(y)
StrLess(a, b) == SeqLess(CharLess, a, b)

\* Path.parts
PathParts(path) == SplitRuns(path, {"/"})

\* mutant: the paths are compared as strings, "/" being a character like any other
PathLessAsText(p, q) ==
    LET Code(ch) == IF ch = "/" THEN 3 ELSE 2 * Ord(ch)
        Less(x, y) == Code(x) < Code(y)
    IN  SeqLess(Less, p, q)

\* Path.__lt__
PathLess(p, q) == SeqLess(StrLess, PathParts(p), PathParts(q))

\* the files of a directory, sorted by path
RECURSIVE SortedFiles(_)
SortedFiles(files) ==
    IF files = {} THEN <<>>
    ELSE LET first == CHOOSE f \in files :
                          \A g \in files \ {f} : PathLess(f.path, g.path)
         IN  <<first>> \o SortedFiles(files \ {first})

-----------------------------------------------------------------------------
(* Spec: walk_and_convert over a directory, one step per file operation,   *)
(* parse_xml_to_record running loop turn by loop turn for each file.       *)
(* The directories: at most MaxFiles files, at the paths of FilePaths,     *)
(* each holding one of FileContents.                                       *)

MaxFiles == 3

T_PathB == <<"d", "/", "b", ".", "x", "m", "l">>
T_PathBC == <<"d", "/", "b", "/", "c", ".", "x", "m", "l">>
T_PathUpperB == <<"d", "/", "B", ".", "x", "m", "l">>
T_PathRaw == <<"d", "/", "a", SurrogateFF, ".", "x", "m", "l">>
FilePaths == {T_PathB, T_PathBC, T_PathUpperB, T_PathRaw}

T_Errno13 ==
    <<"[", "E", "r", "r", "n", "o", " ", "1", "3", "]", " ">> \o T_Denied
        \o <<":", " ", "'">>
T_AttributeError ==
    <<"A", "t", "t", "r", "i", "b", "u", "t", "e", "E", "r", "r", "o", "r">>
T_NoNsmap ==
    <<"'", "N", "o", "n", "e", "T", "y", "p", "e", "'", " ", "o", "b", "j", "e", "c",
      "t", " ", "h", "a", "s", " ", "n", "o", " ", "a", "t", "t", "r", "i", "b", "u",
      "t", "e", " ", "'", "n", "s", "m", "a", "p", "'">>

\* a file that cannot be read, one that lxml refuses, one for which lxml gives None
UnreadableDoc == [BareDoc EXCEPT !.fails = "read_bytes"]
MalformedDoc == [BareDoc EXCEPT !.fails = "fromstring"]
RootlessDoc == [BareDoc EXCEPT !.fails = "nsmap"]

\* a document whose author names the affiliations aff1 and aff2 and the notes fn2
\* and fn1, none of which it holds
OrphanDoc == [MinimalDoc EXCEPT !.contrib_els = <<[ContribBo EXCEPT !.xref_fn = <<JStr(T_fn2_fn1)>>]>>]

FileContents ==
    {AnaDoc, TwoAuthorDoc, OrphanDoc, UnreadableDoc, MalformedDoc, RootlessDoc}

\* the directories: every assignment of contents to at most MaxFiles paths
Directories ==
    UNION {{ {[f[p] EXCEPT !.path = p] : p \in paths} : f \in [paths -> FileContents] }
           : paths \in {ps \in SUBSET FilePaths : Cardinality(ps) <= MaxFiles}}

\* repr() of a path without its quotes: a lone surrogate is written as its escape
ReprChar(ch) == IF ch = SurrogateFF THEN <<"\\", "u", "d", "c", "f", "f">> ELSE <<ch>>
ReprText(chars) == Flatten([i \in 1..Len(chars) |-> ReprChar(chars[i])])

\* the exception that lines 192-194 raise for a file that fails
Raised(d) ==
    IF d.fails = "read_bytes"
    THEN [name |-> T_PermissionError,
          message |-> T_Errno13 \o ReprText(d.path) \o <<"'">>]
    ELSE IF d.fails = "fromstring"
    THEN [name |-> T_XMLSyntaxError, message |-> T_EmptyDocument]
    ELSE [name |-> T_AttributeError, message |-> T_NoNsmap]

\* mutant: the error text is the message alone
ErrorRecordMessageOnly(xml_path, e) ==
    JDict(<<Entry(K_source_file, JStr(xml_path)), Entry(K_error, JStr(e.message))>>)

\* err of lines 680-683
ErrorRecord(xml_path, e) ==
    JDict(<<Entry(K_source_file, JStr(xml_path)),
            Entry(K_error, JStr(e.name \o L_colon_sep \o e.message))>>)

\* json.dumps(obj, ensure_ascii=False) + "\n"
OutputLine(obj) == json_dumps(obj) \o <<"\n">>

\* str(n) for a natural number
RECURSIVE Decimal(_)
Decimal(n) ==
    IF n < Len(DigitChars) THEN <<DigitChars[n + 1]>>
    ELSE Decimal(n \div Len(DigitChars)) \o <<DigitChars[(n % Len(DigitChars)) + 1]>>

\* text.encode("utf-8") succeeds: the text holds no lone surrogate
Encodable(text) == \A i \in 1..Len(text) : text[i] \notin Surrogates

T_UnicodeEncodeError ==
    <<"U", "n", "i", "c", "o", "d", "e", "E", "n", "c", "o", "d", "e", "E", "r", "r",
      "o", "r">>
T_CannotEncode ==
    <<"'", "u", "t", "f", "-", "8", "'", " ", "c", "o", "d", "e", "c", " ", "c", "a",
      "n", "'", "t", " ", "e", "n", "c", "o", "d", "e", " ", "c", "h", "a", "r", "a",
      "c", "t", "e", "r", " ", "'">>
T_InPosition == <<"'", " ", "i", "n", " ", "p", "o", "s", "i", "t", "i", "o", "n", " ">>
T_SurrogatesNotAllowed ==
    <<":", " ", "s", "u", "r", "r", "o", "g", "a", "t", "e", "s", " ", "n", "o", "t",
      " ", "a", "l", "l", "o", "w", "e", "d">>

\* the exception of fout.write(text) for a text that the utf-8 file cannot take
EncodeError(text) ==
    LET at == CHOOSE i \in 1..Len(text) :
                  /\ text[i] \in Surrogates
                  /\ \A j \in 1..(i - 1) : text[j] \notin Surrogates
    IN  [name |-> T_UnicodeEncodeError,
         message |-> T_CannotEncode \o ReprChar(text[at]) \o T_InPosition
                         \o Decimal(at - 1) \o T_SurrogatesNotAllowed]

\* the loop variable xml
xml == xml_files[done + 1]

Init ==
    /\ pc = "walk_start"
    /\ input_dir \in Directories
    \* the default flags, or --include-raw-xml with --no-lowercase
    /\ include_raw_xml \in BOOLEAN
    /\ lowercase = ~include_raw_xml
    /\ xml_files = <<>> /\ done = 0 /\ exc = NoException /\ fout = <<>> /\ total = 0
    /\ doc = BareDoc
    /\ todo = <<>> /\ aff_map = <<>> /\ fn_map = <<>> /\ contribs = <<>>
    /\ record = NoValue /\ pruned = NoValue /\ result = NoValue
    /\ PruneIdle
    /\ LowerIdle
    /\ BulkIdle

\* lines 666-672: total = 0, the output is opened, the files are listed and sorted
Discover ==
    /\ pc = "walk_start"
    /\ xml_files' = SortedFiles(input_dir)
    /\ total' = 0
    /\ fout' = <<>>
    /\ pc' = "walk_loop"
    /\ UNCHANGED <<input_dir, done, exc, pruneVars, lowerVars, parseVars, bulkVars>>

\* lines 672-678 and 191-194: the next file is read and parsed without exception
CallParse ==
    /\ pc = "walk_loop"
    /\ done < Len(xml_files)
    /\ xml.fails = "none"
    /\ doc' = xml
    /\ pc' = "parse_start"
    /\ UNCHANGED <<include_raw_xml, lowercase, todo, aff_map, fn_map, contribs,
                   record, pruned, result, pruneVars, lowerVars, walkVars, bulkVars>>

\* lines 672-679 and 191-194: reading or parsing the next file raises
ParseRaises ==
    /\ pc = "walk_loop"
    /\ done < Len(xml_files)
    /\ xml.fails # "none"
    /\ exc' = Raised(xml)
    /\ pc' = "walk_except"
    /\ UNCHANGED <<input_dir, xml_files, done, fout, total, pruneVars, lowerVars,
                   parseVars, bulkVars>>

\* mutant: a file that fails is counted in total as well
WriteErrorCounted ==
    /\ pc = "walk_except"
    /\ LET line == OutputLine(ErrorRecord(xml.path, exc))
       IN  IF Encodable(line)
           THEN /\ fout' = Append(fout, line)
                /\ total' = total + 1
                /\ exc' = NoException
                /\ done' = done + 1
                /\ pc' = "walk_loop"
           ELSE /\ exc' = EncodeError(line)
                /\ pc' = "walk_raised"
                /\ UNCHANGED <<fout, done, total>>
    /\ UNCHANGED <<input_dir, xml_files, pruneVars, lowerVars, parseVars, bulkVars>>

\* lines 679-685: the error line is written and the loop goes on; a line that the
\* utf-8 output cannot take makes fout.write raise inside the except clause, and
\* the exception leaves walk_and_convert
WriteError ==
    /\ pc = "walk_except"
    /\ LET line == OutputLine(ErrorRecord(xml.path, exc))
       IN  IF Encodable(line)
           THEN /\ fout' = Append(fout, line)
                /\ exc' = NoException
                /\ done' = done + 1
                /\ pc' = "walk_loop"
           ELSE /\ exc' = EncodeError(line)
                /\ pc' = "walk_raised"
                /\ UNCHANGED <<fout, done>>
    /\ UNCHANGED <<input_dir, xml_files, total, pruneVars, lowerVars, parseVars, bulkVars>>

\* lines 687-688: the line of the record is written and counted; a line that the
\* utf-8 output cannot take makes fout.write raise, outside the try block
WriteRecord ==
    /\ pc = "parse_done"
    /\ done < Len(xml_files)
    /\ LET line == OutputLine(result)
       IN  IF Encodable(line)
           THEN /\ fout' = Append(fout, line)
                /\ total' = total + 1
                /\ done' = done + 1
                /\ pc' = "walk_loop"
                /\ UNCHANGED exc
           ELSE /\ exc' = EncodeError(line)
                /\ pc' = "walk_raised"
                /\ UNCHANGED <<fout, total, done>>
    /\ UNCHANGED <<input_dir, xml_files, pruneVars, lowerVars, parseVars, bulkVars>>

\* line 690: the loop is over
ReturnTotal ==
    /\ pc = "walk_loop"
    /\ done = Len(xml_files)
    /\ pc' = "walk_done"
    /\ UNCHANGED <<pruneVars, lowerVars, parseVars, walkVars, bulkVars>>

-----------------------------------------------------------------------------
(* write_bulk (lines 693-714), one step per line of the input              *)

K_index == <<"i", "n", "d", "e", "x">>
K__index == <<"_", "i", "n", "d", "e", "x">>
K__id == <<"_", "i", "d">>
T_scielo == <<"s", "c", "i", "e", "l", "o">>
T_idx == <<"i", "d", "x">>
T_other == <<"o", "t", "h", "e", "r">>
T_Oid == <<"O", "7">>

\* open("r", encoding="utf-8"): "\r\n" and "\r" are read as "\n"
UniversalNewlines(text) ==
    SelectSeq([i \in 1..Len(text) |->
                  IF text[i] = "\r" THEN "\n"
                  ELSE IF text[i] = "\n" /\ i > 1 /\ text[i - 1] = "\r" THEN ""
                  ELSE text[i]],
              LAMBDA ch : ch # "")

\* for line in fin: each line with its "\n", the last one maybe without
FileLines(text) ==
    LET ends == {i \in 1..Len(text) : text[i] = "\n" \/ i = Len(text)}
    IN  [k \in 1..Cardinality(ends) |->
            LET last == CHOOSE e \in ends : Cardinality({j \in ends : j <= e}) = k
                before == {j \in ends : j < last}
                first == IF before = {} THEN 1
                         ELSE 1 + CHOOSE b \in before : \A j \in before : j <= b
            IN  SubSeq(text, first, last)]

\* meta of line 709
BulkMeta(index) == JDict(<<Entry(K_index, JDict(<<Entry(K__index, JStr(index))>>))>>)

\* mutant: the record line is written before its action line
BulkWritesDocFirst(index, text) == <<text \o <<"\n">>, OutputLine(BulkMeta(index))>>

\* the two fout.write of lines 710-711
BulkWrites(index, text) == <<OutputLine(BulkMeta(index)), text \o <<"\n">> >>

\* main, lines 752-754: --bulk is given, write_bulk is called on the file just written
MainCallsBulk ==
    /\ pc = "walk_done"
    /\ ndjson' = Flatten(fout)
    /\ index_name' \in {T_scielo, T_idx}
    /\ pc' = "bulk_start"
    /\ UNCHANGED <<fin, bulk, bulk_n, pruneVars, lowerVars, parseVars, walkVars>>

\* lines 702-705: n = 0, both files are opened
BulkOpen ==
    /\ pc = "bulk_start"
    /\ \E text \in {UniversalNewlines(ndjson)} : fin' = FileLines(text)
    /\ bulk' = <<>>
    /\ bulk_n' = 0
    /\ pc' = "bulk_loop"
    /\ UNCHANGED <<ndjson, index_name, pruneVars, lowerVars, parseVars, walkVars>>

\* lines 706-712: one line of fin
BulkLine ==
    /\ pc = "bulk_loop"
    /\ fin # <<>>
    /\ LET text == Strip(Head(fin))
       IN  IF text = <<>>
           THEN UNCHANGED <<bulk, bulk_n>>
           ELSE /\ bulk' = bulk \o BulkWrites(index_name, text)
                /\ bulk_n' = bulk_n + 1
    /\ fin' = Tail(fin)
    /\ UNCHANGED <<pc, ndjson, index_name, pruneVars, lowerVars, parseVars, walkVars>>

\* line 713: the input is exhausted
BulkReturn ==
    /\ pc = "bulk_loop"
    /\ fin = <<>>
    /\ pc' = "bulk_done"
    /\ UNCHANGED <<pruneVars, lowerVars, parseVars, walkVars, bulkVars>>

-----------------------------------------------------------------------------
(* Spec: main, walk_and_convert and then write_bulk on the file written *)

Next ==
    \/ Discover
    \/ CallParse
    \/ ParseRaises
    \/ WriteError
    \/ ParseHead
    \/ ScanAffStep
    \/ StartFnScan
    \/ ScanFnStep
    \/ StartAuthors
    \/ AuthorStep
    \/ FinishRecord
    \/ NormalizeAndReturn
    \/ WriteRecord
    \/ ReturnTotal
    \/ MainCallsBulk
    \/ BulkOpen
    \/ BulkLine
    \/ BulkReturn

Spec == Init /\ [][Next]_vars

-----------------------------------------------------------------------------
(* SpecBulk: write_bulk on every file of at most MaxLines lines, each one  *)
(* of BulkFileLines: records as walk_and_convert writes them, an error     *)
(* record, a line ended by "\r\n", a record between blanks, an empty line  *)
(* and a line of blanks; the last line with or without its end of line.    *)

MaxLines == 3

ArticleId(type, value) ==
    [pub_id_type |-> JStr(type), pubid_type |-> JNull, text |-> JStr(value)]

\* documents with a publisher-id and a DOI, with an "other" id and a DOI, with a DOI
DocPid ==
    [BareDoc EXCEPT !.article_id_els = <<ArticleId(T_doi, T_DoiValue),
                                         ArticleId(T_publisher_id, T_Pid)>>]
DocOther ==
    [BareDoc EXCEPT !.article_id_els = <<ArticleId(T_other, T_Oid),
                                         ArticleId(T_doi, T_DoiValue)>>]
DocDoi == [BareDoc EXCEPT !.article_id_els = <<ArticleId(T_doi, T_DoiValue)>>]

\* the records that parse_xml_to_record returns for these documents, and the
\* record of a document with nothing in it
IdsRecord(ids) ==
    JDict(<<Entry(K_source_file, JStr(BareDoc.path)), Entry(K_article_ids, JDict(ids))>>)
RecPid == IdsRecord(<<Entry(T_doi, JStr(T_DoiValue)), Entry(T_publisher_id, JStr(T_Pid))>>)
RecOther == IdsRecord(<<Entry(T_other, JStr(T_Oid)), Entry(T_doi, JStr(T_DoiValue))>>)
RecDoi == IdsRecord(<<Entry(T_doi, JStr(T_DoiValue))>>)
RecBare == JDict(<<Entry(K_source_file, JStr(BareDoc.path))>>)
\* the error record of a document that lxml refuses
RecError ==
    JDict(<<Entry(K_source_file, JStr(BareDoc.path)),
            Entry(K_error, JStr(T_XMLSyntaxError \o L_colon_sep \o T_EmptyDocument))>>)
BulkRecords == {RecPid, RecOther, RecDoi, RecBare, RecError}

BulkFileLines ==
    {OutputLine(r) : r \in {RecPid, RecOther, RecError}}
    \cup {json_dumps(r) \o <<"\r", "\n">> : r \in {RecDoi}}
    \cup {<<" ">> \o json_dumps(r) \o <<"\t", "\n">> : r \in {RecBare}}
    \cup {<<"\n">>, <<" ", "\t", "\n">>}

\* the text without its last end of line
ChopEnd(text) ==
    IF text # <<>> /\ text[Len(text)] = "\n"
    THEN LET m == IF Len(text) > 1 /\ text[Len(text) - 1] = "\r" THEN 2 ELSE 1
         IN  SubSeq(text, 1, Len(text) - m)
    ELSE text

BulkInputs ==
    LET whole == {Flatten(q) : q \in SeqsUpTo(BulkFileLines, MaxLines)}
    IN  whole \cup {ChopEnd(text) : text \in whole}

InitBulk ==
    /\ pc = "bulk_start"
    /\ ndjson \in BulkInputs
    /\ index_name \in {T_scielo, T_idx}
    /\ fin = <<>> /\ bulk = <<>> /\ bulk_n = 0
    /\ PruneIdle
    /\ LowerIdle
    /\ ParseIdle
    /\ WalkIdle

NextBulk ==
    \/ BulkOpen
    \/ BulkLine
    \/ BulkReturn

SpecBulk == InitBulk /\ [][NextBulk]_vars

-----------------------------------------------------------------------------
(* Claims about _prune *)

\* no dict at any depth of v holds an entry whose value is None, [] or {}
RECURSIVE NoEmptyEntries(_)
NoEmptyEntries(v) ==
    \A i \in 1..Len(v.c) :
        /\ v.t = "dict" => ~IsNoneOrEmpty(v.c[i].v)
        /\ NoEmptyEntries(v.c[i].v)

\* the dict entries of v (any depth, in traversal order) whose value is 0 or False
RECURSIVE FalsyEntries(_)
FalsyEntries(v) ==
    Flatten([i \in 1..Len(v.c) |->
                (IF v.t = "dict" /\ v.c[i].v \in {JInt0, JFalse}
                 THEN <<v.c[i]>> ELSE <<>>)
                \o FalsyEntries(v.c[i].v)])

\* C2: _prune is idempotent: pruning an already pruned value returns it unchanged.
C2_PruneIdempotent ==
    pc = "prune_twice" => p_twice = p_once

\* a dict emptied only because pruning emptied its child dict, pruned twice
C2_Witness ==
    /\ pc = "prune_twice"
    /\ p_in.t = "dict" /\ Len(p_in.c) = 1
    /\ p_in.c[1].v.t = "dict" /\ p_in.c[1].v.c # <<>>
    /\ p_once = JDict(<<>>)

\* C3: after _prune no dict at any depth holds a None, [] or {} value (children are
\* pruned before the parent is tested), and every dict entry whose value is 0 or
\* False is still there, unchanged.
C3_PruneRemovesEmptyKeepsFalsy ==
    pc = "prune_once" =>
        /\ NoEmptyEntries(p_once)
        /\ FalsyEntries(p_once) = FalsyEntries(p_in)

\* a dict holding a 0 next to a child that pruning empties and removes
C3_Witness ==
    /\ pc = "prune_once"
    /\ p_in.t = "dict" /\ Len(p_in.c) = 2
    /\ p_in.c[1].v.t \in {"dict", "list"} /\ p_in.c[1].v.c # <<>>
    /\ p_in.c[2].v = JInt0
    /\ p_once = JDict(<<[k |-> p_in.c[2].k, v |-> JInt0]>>)

-----------------------------------------------------------------------------
(* Claims about _lowercase_record *)

\* the structural path of a position: ".key" per dict access, "[index]" per list
\* access, written without the leading dot of a top-level key
RECURSIVE PathSegments(_, _)
PathSegments(v, pos) ==
    IF pos = <<>> THEN <<>>
    ELSE (IF v.t = "dict" THEN <<".">> \o v.c[Head(pos)].k
          ELSE <<"[">> \o IntToStr(Head(pos) - 1) \o <<"]">>)
         \o PathSegments(v.c[Head(pos)].v, Tail(pos))

StructuralPath(v, pos) ==
    LET full == PathSegments(v, pos)
    IN  IF full # <<>> /\ Head(full) = "." THEN Tail(full) ELSE full

\* the node at pos or one of its ancestors has its path in the skip set
AncestorOrSelfSkipped(v, skip, pos) ==
    \E n \in 0..Len(pos) : StructuralPath(v, SubSeq(pos, 1, n)) \in skip

\* C4: _lowercase_record lowercases a string leaf iff neither its own path nor the
\* path of one of its ancestors is in the skip set; a node whose path is in the skip
\* set comes back with its whole subtree unchanged.
C4_LowercaseIffNotSkipped ==
    pc = "lower_done" =>
        /\ Positions(l_out) = Positions(l_in)
        /\ \A pos \in Positions(l_in) :
              LET n == NodeAt(l_in, pos)
                  m == NodeAt(l_out, pos)
              IN  /\ n.t = "str" =>
                        m = IF AncestorOrSelfSkipped(l_in, l_skip, pos)
                            THEN n ELSE JStr(Lower(n.s))
                  /\ StructuralPath(l_in, pos) \in l_skip => m = n

\* {"a": ["Ab"], "b": "Ab"} with skip set {"a"}: the list under "a" keeps its case,
\* the string under "b" is lowercased
C4_Witness ==
    /\ pc = "lower_done"
    /\ l_skip = {<<"a">>}
    /\ l_in = JDict(<<[k |-> <<"a">>, v |-> JList(<<JStr(<<"A", "b">>)>>)],
                      [k |-> <<"b">>, v |-> JStr(<<"A", "b">>)]>>)
    /\ l_out = JDict(<<[k |-> <<"a">>, v |-> JList(<<JStr(<<"A", "b">>)>>)],
                       [k |-> <<"b">>, v |-> JStr(<<"a", "b">>)]>>)

-----------------------------------------------------------------------------
(* Claims about parse_xml_to_record *)

\* the members of a finite set of integers, in ascending order
RECURSIVE Ascending(_)
Ascending(S) ==
    IF S = {} THEN <<>>
    ELSE LET least == CHOOSE i \in S : \A j \in S : i <= j
         IN  <<least>> \o Ascending(S \ {least})

\* the value under a key of a dict, None when the key is absent
Field(v, key) == DictGet(v.c, key)

\* the contribs that become authors, and the authors of a record
KeptContribs(d) == SelectSeq(d.contrib_els, LAMBDA c : ~IsSkippedContrib(c))
AuthorsIn(rec) == ListField(rec, K_authors)

\* the steps from the root to a position: the key of each dict access, AnyIndex
\* for each list access
AnyIndex == <<"[", "]">>
AnyKey == <<"*">>
RECURSIVE Trail(_, _)
Trail(v, pos) ==
    IF pos = <<>> THEN <<>>
    ELSE <<IF v.t = "dict" THEN v.c[Head(pos)].k ELSE AnyIndex>>
         \o Trail(v.c[Head(pos)].v, Tail(pos))

\* the default skip paths
DefaultSkipPatterns ==
    {<<K_source_file>>, <<K_raw_xml>>, <<K_full_text>>,
     <<K_full_text_sections, AnyIndex, K_paragraphs, AnyIndex>>,
     <<K_abstracts, AnyIndex, K_text>>,
     <<K_authors, AnyIndex, K_email>>,
     <<K_authors, AnyIndex, K_email_from_note>>,
     <<K_authors, AnyIndex, K_orcid>>,
     <<K_authors, AnyIndex, K_affiliations, AnyIndex, K_country_code>>,
     <<K_article_ids, AnyKey>>,
     <<K_references, AnyIndex, K_structured, K_doi>>,
     <<K_references, AnyIndex, K_structured, K_pmid>>,
     <<K_references, AnyIndex, K_structured, K_pmcid>>,
     <<K_references, AnyIndex, K_structured, K_uri>>}

MatchesPattern(trail, pattern) ==
    /\ Len(trail) = Len(pattern)
    /\ \A i \in 1..Len(pattern) : pattern[i] = AnyKey \/ pattern[i] = trail[i]

\* the position, or a container above it, is at a default skip path
AtDefaultSkipPath(v, pos) ==
    \E n \in 0..Len(pos), pattern \in DefaultSkipPatterns :
        MatchesPattern(Trail(v, SubSeq(pos, 1, n)), pattern)

\* C5: with lowercasing enabled, the record returned has the shape and the keys of
\* the pruned record, every string at a default skip path (source_file, raw_xml,
\* full_text, full_text_sections[i].paragraphs[j], abstracts[i].text,
\* authors[i].email / email_from_note / orcid, authors[i].affiliations[j].country_code,
\* every value under article_ids, references[i].structured.doi/pmid/pmcid/uri) is as in
\* the pruned record, and every other string is lowercased.
C5_DefaultSkipPathsKeepCase ==
    (pc = "parse_done" /\ lowercase) =>
        /\ Positions(result) = Positions(pruned)
        /\ \A pos \in Positions(pruned) :
              LET n == NodeAt(pruned, pos)
                  m == NodeAt(result, pos)
              IN  /\ Trail(result, pos) = Trail(pruned, pos)
                  /\ m.t = n.t
                  /\ n.t = "str" =>
                        m = IF AtDefaultSkipPath(pruned, pos) THEN n
                            ELSE JStr(Lower(n.s))

\* full_text = "Abc" and article_title = "Abc" end as "Abc" and "abc"; the DOI of
\* article_ids and the email of an author keep their capitals
C5_Witness ==
    /\ pc = "parse_done" /\ lowercase
    /\ Field(pruned, K_full_text) = JStr(<<"A", "b", "c">>)
    /\ Field(pruned, K_article_title) = JStr(<<"A", "b", "c">>)
    /\ Field(result, K_full_text) = JStr(<<"A", "b", "c">>)
    /\ Field(result, K_article_title) = JStr(<<"a", "b", "c">>)
    /\ Field(Field(result, K_article_ids), <<"d", "o", "i">>)
           = JStr(<<"1", "0", ".", "1", "/", "X", "y">>)
    /\ \E a \in 1..Len(AuthorsIn(result)) :
           Field(AuthorsIn(result)[a], K_email) = JStr(<<"E", "@", "x", ".", "o", "r", "g">>)

\* C6: with the lowercase mode disabled the record returned is the pruned record.
C6_NoLowercaseReturnsPruned ==
    (pc = "parse_done" /\ ~lowercase) => result = pruned

\* the rich document parsed with the mode disabled: the title keeps its capital
C6_Witness ==
    /\ pc = "parse_done" /\ ~lowercase
    /\ doc.article_type = JStr(T_Rev)
    /\ Field(result, K_article_type) = JStr(<<"R", "e", "v">>)
    /\ Field(result, K_article_title) = JStr(<<"A", "b", "c">>)
    /\ AuthorsIn(result) # <<>>

\* the maximal runs of characters of str that are not whitespace, "," or ";"
IdTokens(str) ==
    LET starts == {i \in 1..Len(str) :
                      /\ str[i] \notin IdSeparatorChars
                      /\ i = 1 \/ str[i - 1] \in IdSeparatorChars}
        EndOf(i) == CHOOSE j \in i..Len(str) :
                        /\ \A k \in i..j : str[k] \notin IdSeparatorChars
                        /\ j = Len(str) \/ str[j + 1] \in IdSeparatorChars
        order == Ascending(starts)
    IN  [n \in 1..Len(order) |-> SubSeq(str, order[n], EndOf(order[n]))]

\* xs without the members that occur earlier in it
FirstSeen(xs) ==
    LET order == Ascending({i \in 1..Len(xs) : \A j \in 1..(i - 1) : xs[j] # xs[i]})
    IN  [n \in 1..Len(order) |-> xs[order[n]]]

\* the ids that the markers of a contrib name, and the entries of the table they name
NamedIds(markers) ==
    FirstSeen(Flatten([i \in 1..Len(markers) |->
                          IF markers[i] = JNull THEN <<>> ELSE IdTokens(markers[i].s)]))
NamedEntries(table, markers) ==
    LET ids == SelectSeq(NamedIds(markers), LAMBDA id : DictHas(table, id))
    IN  [n \in 1..Len(ids) |-> DictGet(table, ids[n])]

\* the affiliations of an author that come from the table: all but the inline ones
TableAffiliations(author, c) ==
    LET affs == ListField(author, K_affiliations)
    IN  SubSeq(affs, 1, Len(affs) - Len(c.affs))

\* C7: the affiliation ids of an author are the tokens of its 'aff' markers split on
\* runs of whitespace, commas and semicolons, without repeats, in first-seen order,
\* and are resolved against the table in that order; "aff1 aff1,aff2" with both ids in
\* the table resolves to [aff1, aff2].
C7_AffiliationIdsFirstSeenOrder ==
    pc = "parse_done" =>
        /\ Len(AuthorsIn(pruned)) = Len(KeptContribs(doc))
        /\ \A n \in 1..Len(KeptContribs(doc)) :
              LET c == KeptContribs(doc)[n]
                  resolved == TableAffiliations(AuthorsIn(pruned)[n], c)
              IN  /\ resolved = NamedEntries(aff_map, c.xref_aff)
                  /\ (c = ContribBo /\ DictHas(aff_map, T_aff1) /\ DictHas(aff_map, T_aff2))
                        => [i \in 1..Len(resolved) |-> Field(resolved[i], K_id)]
                               = <<JStr(<<"a", "f", "f", "1">>), JStr(<<"a", "f", "f", "2">>)>>

\* an author whose markers are "aff1 aff1,aff2" and " aff2; ", both ids in the table
C7_Witness ==
    /\ pc = "parse_done"
    /\ doc.contrib_els = <<ContribBo>>
    /\ doc.aff_els = <<AffUsp, AffUniX>>
    /\ ListField(AuthorsIn(pruned)[1], K_affiliations)
           = <<DictGet(aff_map, T_aff1), DictGet(aff_map, T_aff2)>>
    /\ Field(DictGet(aff_map, T_aff1), K_org_name) = JStr(T_UniversidadeX)

\* the records of the inline affiliations of a contrib: all but the table ones
InlineAffiliations(author, c) ==
    LET affs == ListField(author, K_affiliations)
    IN  SubSeq(affs, Len(affs) - Len(c.affs) + 1, Len(affs))

\* C8, as the specification states it: the affiliation list of every author is the
\* table-resolved affiliations in first-seen reference order followed by the inline
\* ones in document order, and holds no two equal values.
C8_AffiliationListHasNoEqualValues ==
    pc = "parse_done" =>
        \A n \in 1..Len(KeptContribs(doc)) :
            LET c == KeptContribs(doc)[n]
                affs == ListField(AuthorsIn(pruned)[n], K_affiliations)
            IN  /\ Len(affs) >= Len(c.affs)
                /\ TableAffiliations(AuthorsIn(pruned)[n], c)
                       = NamedEntries(aff_map, c.xref_aff)
                /\ \A j \in 1..Len(c.affs) :
                       Field(InlineAffiliations(AuthorsIn(pruned)[n], c)[j], K_name)
                           = _txt(AffElement(c.affs[j]))
                /\ \A i, j \in 1..Len(affs) : affs[i] = affs[j] => i = j

\* C9: the email of an author is the text of its email element when there is one,
\* otherwise the first address found in the text of its resolved notes, in their
\* order, otherwise absent; email_from_note is the address of the notes, whether or
\* not there is an email element.
C9_ExplicitEmailFirst ==
    pc = "parse_done" =>
        \A n \in 1..Len(KeptContribs(doc)) :
            LET c == KeptContribs(doc)[n]
                author == AuthorsIn(pruned)[n]
                notes == ListField(author, K_nota_author)
                hits == {i \in 1..Len(notes) :
                            _extract_email_from_text(Field(notes[i], K_text)) # JNull}
                from_notes ==
                    IF hits = {} THEN JNull
                    ELSE _extract_email_from_text(
                             Field(notes[CHOOSE i \in hits : \A j \in hits : i <= j], K_text))
                explicit == _txt(c.email)
                named == NamedEntries(fn_map, c.xref_fn)
            IN  /\ notes = [i \in 1..Len(named) |-> _prune(named[i])]
                /\ Field(author, K_email)
                       = IF explicit # JNull THEN explicit ELSE from_notes
                /\ Field(author, K_email_from_note) = from_notes

\* an author with the email element E@x.org and a note "Mail: N@y.org or m@y.org",
\* and an author without email element whose second note holds the address
C9_Witness ==
    /\ pc = "parse_done"
    /\ doc.contrib_els = <<ContribMail, ContribNotes>>
    /\ Field(AuthorsIn(pruned)[1], K_email) = JStr(<<"E", "@", "x", ".", "o", "r", "g">>)
    /\ Field(AuthorsIn(pruned)[1], K_email_from_note)
           = JStr(<<"N", "@", "y", ".", "o", "r", "g">>)
    /\ Len(ListField(AuthorsIn(pruned)[2], K_nota_author)) = 2
    /\ Field(AuthorsIn(pruned)[2], K_email) = JStr(<<"N", "@", "y", ".", "o", "r", "g">>)

\* "Ana Silva — Afiliações: Universidade X"
T_AnaSilvaOfUniversidadeX ==
    <<"A", "n", "a", " ", "S", "i", "l", "v", "a", " ", EmDash, " ",
      "A", "f", "i", "l", "i", "a", CCedilla, OTilde, "e", "s", ":", " ",
      "U", "n", "i", "v", "e", "r", "s", "i", "d", "a", "d", "e", " ", "X">>

\* C10, as the specification states it: the minimal document gives
\* authors[0].author_flat == "Ana Silva — Afiliações: Universidade X" and no full_text.
C10_AuthorFlatWithoutCountry ==
    (pc = "parse_done" /\ doc = AnaDoc) =>
        /\ Field(AuthorsIn(pruned)[1], K_author_flat) = JStr(T_AnaSilvaOfUniversidadeX)
        /\ ~DictHas(pruned.c, K_full_text)

\* C10: the minimal document (one author Ana Silva, one affiliation with org name
\* "Universidade X" and country "Brasil", one abstract in "pt", no body) gives a
\* pruned record with authors[0].author_flat ==
\* "Ana Silva — Afiliações: Universidade X, Brasil" (name, then affiliations, each
\* affiliation its org name and country joined by ", "; no "Notas:" segment) and
\* without full_text key.
C10_AuthorFlatWithCountry ==
    (pc = "parse_done" /\ doc = AnaDoc) =>
        /\ Len(AuthorsIn(pruned)) = 1
        /\ Field(AuthorsIn(pruned)[1], K_author_flat)
               = JStr(T_AnaSilvaOfUniversidadeX \o <<",", " ", "B", "r", "a", "s", "i", "l">>)
        /\ ~DictHas(pruned.c, K_full_text)
        /\ ~DictHas(pruned.c, K_full_text_sections)

\* the minimal document parsed: one abstract in "pt", one author, one affiliation
C10_Witness ==
    /\ pc = "parse_done" /\ doc = AnaDoc
    /\ doc.fn_els = <<>> /\ ~doc.has_body
    /\ Field(AuthorsIn(pruned)[1], K_given) = JStr(<<"A", "n", "a">>)
    /\ Field(AuthorsIn(pruned)[1], K_surname) = JStr(<<"S", "i", "l", "v", "a">>)
    /\ Field(ListField(AuthorsIn(pruned)[1], K_affiliations)[1], K_country)
           = JStr(<<"B", "r", "a", "s", "i", "l">>)
    /\ Field(ListField(pruned, K_abstracts)[1], K_lang) = JStr(<<"p", "t">>)

-----------------------------------------------------------------------------
(* Claims about walk_and_convert *)

\* {"source_file": "<path>", "error": "<name>: <message>"} and the end of line, for
\* texts that need no escape
ErrorLineText(path, name, message) ==
    <<"{", "\"", "s", "o", "u", "r", "c", "e", "_", "f", "i", "l", "e", "\"", ":", " ",
      "\"">> \o path
        \o <<"\"", ",", " ", "\"", "e", "r", "r", "o", "r", "\"", ":", " ", "\"">>
        \o name \o <<":", " ">> \o message \o <<"\"", "}", "\n">>

\* C1: every file whose reading or parsing raises gets exactly one line, in its
\* place, holding {"source_file": its path, "error": "<exception name>: <message>"};
\* the run ends only when every file, failing or not, has its line, and it is never
\* aborted at a failing file.
C1_FailingFileGetsOneErrorLine ==
    /\ Len(fout) = done
    /\ \A k \in 1..Len(fout) :
          xml_files[k].fails # "none" =>
              fout[k] = ErrorLineText(xml_files[k].path, Raised(xml_files[k]).name,
                                      Raised(xml_files[k]).message)
    /\ pc \in {"walk_except", "parse_done"} => done < Len(xml_files)
    /\ pc = "walk_except" => (xml.fails # "none" /\ exc = Raised(xml))
    /\ pc = "walk_done" =>
          /\ Len(fout) = Len(xml_files)
          /\ Len(xml_files) = Cardinality(input_dir)
          /\ total = Cardinality({k \in 1..Len(xml_files) : xml_files[k].fails = "none"})
    /\ ~(pc = "walk_raised" /\ xml.fails # "none")

\* C1, what the code gives: the same, except that the run is aborted, without a
\* line, at the first file whose path the utf-8 output cannot take, and only there
C1_AbortedOnlyAtUnencodablePath ==
    /\ Len(fout) = done
    /\ \A k \in 1..Len(fout) :
          /\ Encodable(xml_files[k].path)
          /\ xml_files[k].fails # "none" =>
                 fout[k] = ErrorLineText(xml_files[k].path, Raised(xml_files[k]).name,
                                         Raised(xml_files[k]).message)
    /\ pc \in {"walk_except", "parse_done", "walk_raised"} => done < Len(xml_files)
    /\ pc = "walk_except" => (xml.fails # "none" /\ exc = Raised(xml))
    /\ pc = "walk_raised" =>
          /\ ~Encodable(xml.path)
          /\ exc.name = T_UnicodeEncodeError
    /\ pc = "walk_done" =>
          /\ Len(fout) = Len(xml_files)
          /\ Len(xml_files) = Cardinality(input_dir)
          /\ total = Cardinality({k \in 1..Len(xml_files) : xml_files[k].fails = "none"})

\* a run aborted at a file that lxml refuses and whose name is not UTF-8: its line
\* is not written and the file after it is not processed
C1_AbortedAtFailingFile ==
    /\ pc = "walk_raised"
    /\ Len(xml_files) = 3
    /\ done = 1
    /\ xml = [MalformedDoc EXCEPT !.path = T_PathRaw]
    /\ xml_files[3].path = T_PathB
    /\ Len(fout) = 1
    /\ exc = [name |-> T_UnicodeEncodeError,
              message |-> T_CannotEncode \o <<"\\", "u", "d", "c", "f", "f">>
                              \o T_InPosition \o <<"2", "0">> \o T_SurrogatesNotAllowed]

\* a run that ends after a file that cannot be read, a file that lxml refuses and,
\* last, a file that converts
C1_Witness ==
    /\ pc = "walk_done"
    /\ Len(xml_files) = 3
    /\ xml_files[1].fails = "read_bytes"
    /\ xml_files[2].fails = "fromstring"
    /\ xml_files[3] = [AnaDoc EXCEPT !.path = T_PathB]
    /\ fout[1] = ErrorLineText(T_PathUpperB, T_PermissionError,
                               T_Errno13 \o T_PathUpperB \o <<"'">>)
    /\ fout[2] = ErrorLineText(T_PathBC, T_XMLSyntaxError, T_EmptyDocument)
    /\ Len(fout) = 3
    /\ total = 1

-----------------------------------------------------------------------------
(* Claims about write_bulk *)

\* the lines of a text that are not empty: its maximal runs without end of line
TextLines(text) == SplitRuns(text, {"\n", "\r"})
IsBlank(text) == \A i \in 1..Len(text) : text[i] \in {" ", "\t"}
\* the record lines of a line-delimited text: its lines that are not blank
RecordLines(text) == SelectSeq(TextLines(text), LAMBDA l : ~IsBlank(l))

\* {"index": {"_index": "<index>"}}
MetaLineText(index) ==
    <<"{", "\"">> \o K_index \o <<"\"", ":", " ", "{", "\"">> \o K__index
        \o <<"\"", ":", " ", "\"">> \o index \o <<"\"", "}", "}">>

\* the bulk file is made of pairs, one per record line read so far
BulkPairsSoFar ==
    /\ pc \in {"bulk_loop", "bulk_done"} => Len(bulk) = 2 * bulk_n
    /\ \A i \in 1..Len(bulk) : bulk[i] # <<>> /\ bulk[i][Len(bulk[i])] = "\n"

\* C11 as stated: each record line of the input gives an action line naming the
\* index and then the record line itself, unchanged; the bulk file has twice as many
\* lines as the input has records, and write_bulk returns their number.
C11_BulkCopiesRecordLines ==
    /\ BulkPairsSoFar
    /\ pc = "bulk_done" =>
          LET recs == RecordLines(ndjson)
              out == TextLines(Flatten(bulk))
          IN  /\ Len(out) = 2 * Len(recs)
              /\ \A k \in 1..Len(recs) :
                    /\ out[2 * k - 1] = MetaLineText(index_name)
                    /\ out[2 * k] = recs[k]
              /\ bulk_n = Len(recs)

\* C11, what the code gives: the same, the record line being written without the
\* blanks around it (and so unchanged when it has none)
C11_BulkCopiesTrimmedRecordLines ==
    /\ BulkPairsSoFar
    /\ pc = "bulk_done" =>
          LET recs == RecordLines(ndjson)
              out == TextLines(Flatten(bulk))
          IN  /\ Len(out) = 2 * Len(recs)
              /\ \A k \in 1..Len(recs) :
                    /\ out[2 * k - 1] = MetaLineText(index_name)
                    /\ out[2 * k] = Strip(recs[k])
                    /\ (~IsBlank(<<Head(recs[k])>>) /\ ~IsBlank(<<recs[k][Len(recs[k])]>>))
                          => out[2 * k] = recs[k]
              /\ bulk_n = Len(recs)

\* a record, an empty line and a record between blanks: two pairs are written
C11_Witness ==
    /\ pc = "bulk_done"
    /\ ndjson = OutputLine(RecPid) \o <<"\n">> \o <<" ">> \o json_dumps(RecBare)
                    \o <<"\t">>
    /\ index_name = T_idx
    /\ bulk = <<MetaLineText(T_idx) \o <<"\n">>, OutputLine(RecPid),
                MetaLineText(T_idx) \o <<"\n">>, OutputLine(RecBare)>>
    /\ bulk_n = 2

\* t holds sub as a run of consecutive characters
Contains(t, sub) ==
    \E i \in 0..(Len(t) - Len(sub)) : SubSeq(t, i + 1, i + Len(sub)) = sub

\* the document id of the specification: publisher-id, else other, else the DOI,
\* else the source file
ChosenId(rec) ==
    LET ids == DictGet(rec.c, K_article_ids)
        IdOf(type) == IF ids.t = "dict" THEN DictGet(ids.c, type) ELSE JNull
    IN  IF IdOf(T_publisher_id) # JNull THEN IdOf(T_publisher_id).s
        ELSE IF IdOf(T_other) # JNull THEN IdOf(T_other).s
        ELSE IF IdOf(T_doi) # JNull THEN IdOf(T_doi).s
        ELSE DictGet(rec.c, K_source_file).s

\* "_id": "<id>"
IdMemberText(id) == <<"\"">> \o K__id \o <<"\"", ":", " ">> \o JsonString(id)

\* C12 as stated: the action line of each record carries the document id chosen as
\* publisher-id, else other, else DOI, else source file path.
C12_MetaLineCarriesChosenId ==
    pc = "bulk_done" =>
        LET recs == RecordLines(ndjson)
            out == TextLines(Flatten(bulk))
        IN  \A k \in 1..Len(recs) :
                \A r \in BulkRecords :
                    json_dumps(r) = Strip(recs[k]) =>
                        Contains(out[2 * k - 1], IdMemberText(ChosenId(r)))

\* the records are those of documents with these ids; the action line of an error
\* record, which has no identifier and no DOI, names the index and nothing else
C12_MetaWithoutId ==
    /\ RecPid = ParsedRecord(DocPid, FALSE, TRUE)
    /\ RecOther = ParsedRecord(DocOther, FALSE, TRUE)
    /\ RecDoi = ParsedRecord(DocDoi, FALSE, TRUE)
    /\ RecBare = ParsedRecord(BareDoc, FALSE, TRUE)
    /\ pc = "bulk_done"
    /\ ndjson = OutputLine(RecError)
    /\ index_name = T_scielo
    /\ bulk = <<MetaLineText(T_scielo) \o <<"\n">>, OutputLine(RecError)>>
    /\ ChosenId(RecError) = BareDoc.path /\ ChosenId(RecBare) = BareDoc.path
    /\ ChosenId(RecPid) = T_Pid /\ ChosenId(RecOther) = T_Oid
    /\ ChosenId(RecDoi) = T_DoiValue

-----------------------------------------------------------------------------
(* Claims about the order and the shape of the lines of walk_and_convert *)

\* the paths of FilePaths in the order Python gives to sorted(Path(p) for p in ...):
\* d/B.xml, d/a<U+DCFF>.xml, d/b/c.xml, d/b.xml
AscendingPaths == <<T_PathUpperB, T_PathRaw, T_PathBC, T_PathB>>
PathRank(path) == CHOOSE i \in 1..Len(AscendingPaths) : AscendingPaths[i] = path

\* the beginning of every line written for the file at path: {"source_file": "<path>"
LineStart(path) ==
    <<"{">> \o JsonString(K_source_file) \o <<":", " ">> \o JsonString(path)
StartsWith(t, start) == Len(t) >= Len(start) /\ SubSeq(t, 1, Len(start)) = start

\* C13: the files are taken in ascending path order, whatever the directory, and
\* the k-th line written, record or error record, is the line of the k-th file.
C13_LinesFollowSortedPaths ==
    /\ pc # "walk_start" =>
          /\ Len(xml_files) = Cardinality(input_dir)
          /\ {xml_files[k] : k \in 1..Len(xml_files)} = input_dir
          /\ \A i, j \in 1..Len(xml_files) :
                i < j => PathRank(xml_files[i].path) < PathRank(xml_files[j].path)
    /\ Len(fout) = done
    /\ \A k \in 1..Len(fout) : StartsWith(fout[k], LineStart(xml_files[k].path))

\* a run over d/b.xml, d/b/c.xml and d/B.xml has written the line of d/B.xml (which
\* cannot be read), then that of d/b/c.xml, then that of d/b.xml
C13_Witness ==
    /\ pc = "walk_done"
    /\ input_dir = {[AnaDoc EXCEPT !.path = T_PathB],
                    [TwoAuthorDoc EXCEPT !.path = T_PathBC],
                    [UnreadableDoc EXCEPT !.path = T_PathUpperB]}
    /\ Len(fout) = 3
    /\ StartsWith(fout[1], LineStart(T_PathUpperB) \o <<",", " ">> \o JsonString(K_error))
    /\ StartsWith(fout[2], LineStart(T_PathBC))
    /\ StartsWith(fout[3], LineStart(T_PathB))

\* a whole line: one JSON object, then the end of line, and no end of line before
CompleteLine(t) ==
    /\ Len(t) >= 3
    /\ t[1] = "{" /\ t[Len(t) - 1] = "}" /\ t[Len(t)] = "\n"
    /\ \A i \in 1..(Len(t) - 1) : t[i] \notin {"\n", "\r"}

\* C14: every step of walk_and_convert leaves the lines written as they are and
\* adds at most one line, whole; so between two documents the output is made of
\* complete lines only.
C14_LinesAppendedWhole ==
    [][\/ fout' = fout
       \/ /\ Len(fout') = Len(fout) + 1
          /\ SubSeq(fout', 1, Len(fout)) = fout
          /\ CompleteLine(fout'[Len(fout')])]_vars

\* between the second and the third document the output is two complete lines, the
\* second one holding the raw XML of its document with the end of line of that XML
\* written as \n
C14_Witness ==
    /\ pc = "walk_loop"
    /\ Len(xml_files) = 3
    /\ done = 2
    /\ include_raw_xml
    /\ xml_files[2].fails = "none"
    /\ Len(fout) = 2
    /\ CompleteLine(fout[1]) /\ CompleteLine(fout[2])
    /\ Contains(fout[2], JsonString(K_raw_xml) \o <<":", " ">>
                             \o <<"\"", "<", "A", "/", ">", "\\", "n", "\"">>)

-----------------------------------------------------------------------------
(* Claims about the tables of parse_xml_to_record *)

\* the elements of els that the running loop has visited
Visited(els) == SubSeq(els, 1, Len(els) - Len(todo))

\* C15: whatever was processed before, the tables hold what the scans of the
\* document at hand have put into them, starting empty, and the record returned
\* for a document is that of this document alone with the flags.
C15_RecordDependsOnItsDocumentOnly ==
    /\ pc = "parse_affs" => aff_map = ScanAll(ScanAff, <<>>, Visited(AllAffEls(doc)))
    /\ pc \in {"parse_fns", "parse_authors", "parse_assembled", "parse_done"} =>
          aff_map = ScanAll(ScanAff, <<>>, AllAffEls(doc))
    /\ pc = "parse_fns" => fn_map = ScanAll(ScanFn, <<>>, Visited(doc.fn_els))
    /\ pc \in {"parse_authors", "parse_assembled", "parse_done"} =>
          fn_map = ScanAll(ScanFn, <<>>, doc.fn_els)
    /\ pc = "parse_authors" =>
          contribs = AuthorsOf(<<>>, Visited(doc.contrib_els), aff_map, fn_map)
    /\ pc = "parse_done" =>
          /\ doc = xml
          /\ result = ParsedRecord(xml, include_raw_xml, lowercase)

\* the document whose author names aff1, aff2, fn1 and fn2 without holding them comes
\* after a document that holds them all and after a failing one: its author has
\* neither affiliations nor notes
C15_Witness ==
    /\ pc = "walk_done"
    /\ ~lowercase
    /\ Len(xml_files) = 3
    /\ xml_files[1] = [TwoAuthorDoc EXCEPT !.path = T_PathUpperB]
    /\ xml_files[2].fails = "fromstring"
    /\ xml_files[3] = [OrphanDoc EXCEPT !.path = T_PathB]
    /\ Contains(fout[1], JsonString(K_affiliations))
    /\ Contains(fout[1], JsonString(K_nota_author))
    /\ ~Contains(fout[3], JsonString(K_affiliations))
    /\ ~Contains(fout[3], JsonString(K_nota_author))
    /\ Contains(fout[3], JsonString(K_author_flat) \o <<":", " ">> \o JsonString(T_Bo))

\* the affiliation scan is over
AffScanOver == pc \in {"parse_fns", "parse_authors", "parse_assembled", "parse_done"}

\* no two <aff> of els carry the same id
DistinctSourceIds(els) ==
    \A i, j \in 1..Len(els) :
        (Truthy(els[i].id) /\ Truthy(els[j].id) /\ els[i].id = els[j].id) => i = j

\* aff_<n> for some n
IsSyntheticKey(key, els) == \E m \in 1..Len(els) : key = L_aff_prefix \o IntToStr(m)

\* C16 as stated: after the scan of a document whose <aff> carry distinct ids or none,
\* the table holds one entry per <aff>, in discovery order, under the id of the
\* element or under a key aff_<n> when it has none, and no entry has been overwritten.
C16_OneEntryPerAffiliation ==
    (AffScanOver /\ DistinctSourceIds(AllAffEls(doc))) =>
        LET els == AllAffEls(doc)
        IN  /\ Len(aff_map) = Len(els)
            /\ \A i \in 1..Len(els) :
                  i <= Len(aff_map) =>
                      /\ aff_map[i].v = AffMapRecord(els[i])
                      /\ Truthy(els[i].id) => aff_map[i].k = els[i].id.s
                      /\ ~Truthy(els[i].id) => IsSyntheticKey(aff_map[i].k, els)

\* <aff id="aff_2">UnB</aff> followed by <aff> UFBA </aff>: the second element, having
\* no id, is stored under aff_2 and replaces the first
C16_SyntheticKeyOverwrites ==
    /\ pc = "parse_done"
    /\ doc.aff_els = <<AffUnb, AffUfba>>
    /\ doc.contrib_els = <<>>
    /\ Len(aff_map) = 1
    /\ aff_map[1].k = T_aff_2
    /\ aff_map[1].v = AffMapRecord(AffUfba)
    /\ DictGet(aff_map[1].v.c, K_name) = JStr(Strip(T_UFBA))

\* the tables are built: the authors are being processed, or have been
TablesBuilt == pc \in {"parse_authors", "parse_assembled", "parse_done"}

\* the contribs processed so far that became authors
AuthorsSoFar == SelectSeq(Visited(doc.contrib_els), LAMBDA c : ~IsSkippedContrib(c))

\* the values of a list, each as _prune(author) leaves it
PrunedEntries(values) == [i \in 1..Len(values) |-> _prune(values[i])]

\* C17: from the first author on, no step adds, removes or changes an entry of the
\* affiliation table or of the footnote table, and every author processed so far
\* holds, for the ids it names, the values the tables hold now (as the pruning of
\* the author record leaves them): two authors that name the same id hold equal
\* values, whichever comes first.
C17_TablesReadOnly ==
    /\ [][TablesBuilt => (aff_map' = aff_map /\ fn_map' = fn_map)]_vars
    /\ [](TablesBuilt =>
            /\ Len(contribs) = Len(AuthorsSoFar)
            /\ \A n \in 1..Len(AuthorsSoFar) :
                  /\ TableAffiliations(contribs[n], AuthorsSoFar[n])
                         = NamedEntries(aff_map, AuthorsSoFar[n].xref_aff)
                  /\ ListField(contribs[n], K_nota_author)
                         = PrunedEntries(NamedEntries(fn_map, AuthorsSoFar[n].xref_fn)))

\* Bo ("aff1 aff1,aff2") before Li (aff2 and an inline <aff>): both hold the entry
\* of aff2, and the table still holds the three entries of the scan
C17_Witness ==
    /\ pc = "parse_done"
    /\ doc.aff_els = <<AffUniX, AffUsp>>
    /\ doc.contrib_els = <<ContribBo, ContribLi>>
    /\ Len(aff_map) = 3
    /\ ListField(contribs[1], K_affiliations)[2] = DictGet(aff_map, T_aff2)
    /\ ListField(contribs[2], K_affiliations)[1] = DictGet(aff_map, T_aff2)
    /\ Len(ListField(contribs[2], K_affiliations)) = 2

-----------------------------------------------------------------------------
(* Claims about the keywords and the references *)

\* the language a kwd-group declares, lowercased, up to its first "-"; "und" when it
\* declares none
DeclaredBase(kg) ==
    LET declared == IF kg.lang = JNull \/ kg.lang.s = <<>> THEN L_und ELSE kg.lang.s
        lowered == Lower(Strip(declared))
        upto == CHOOSE n \in 0..Len(lowered) :
                    /\ \A i \in 1..n : lowered[i] # "-"
                    /\ n = Len(lowered) \/ lowered[n + 1] = "-"
    IN  SubSeq(lowered, 1, upto)

\* the keywords of a kwd-group that are not blank, trimmed, in source order
GroupKeywords(kg) ==
    LET texts == [i \in 1..Len(kg.kwds) |-> _txt(kg.kwds[i])]
    IN  SelectSeq(texts, Truthy)

\* the keywords entry of a record, one {language: list} per item
KeywordEntries(rec) ==
    LET items == ListField(rec, K_keywords)
    IN  [n \in 1..Len(items) |-> items[n].c]

\* the entries that groups make: one per language of groups, in order of first
\* appearance, each with the keywords of its groups appended in source order
MergedByLanguage(groups) ==
    LET langs == FirstSeen([i \in 1..Len(groups) |-> DeclaredBase(groups[i])])
    IN  [n \in 1..Len(langs) |->
            <<Entry(langs[n],
                    JList(Flatten([i \in 1..Len(groups) |->
                                      IF DeclaredBase(groups[i]) = langs[n]
                                      THEN GroupKeywords(groups[i]) ELSE <<>>])))>>]

\* C18 as stated: the keywords of the record hold exactly one entry per distinct
\* normalized language of the kwd-groups of the document, in order of first appearance
\* of the language, each with the keywords of all its groups in source order.
C18_OneEntryPerDeclaredLanguage ==
    pc = "parse_done" => KeywordEntries(pruned) = MergedByLanguage(doc.kwd_group_els)

\* C18: the same, over the kwd-groups that hold at least one keyword that is not
\* blank: a group without such a keyword makes no entry and does not count as an
\* appearance of its language.
C18_OneEntryPerLanguageWithKeywords ==
    pc = "parse_done" =>
        KeywordEntries(pruned)
            = MergedByLanguage(SelectSeq(doc.kwd_group_els,
                                         LAMBDA kg : GroupKeywords(kg) # <<>>))

\* pt-BR [Saude], " PT" [Saude, Dor] and a group without language: two entries, the
\* first with Saude twice
C18_Witness ==
    /\ pc = "parse_done"
    /\ doc.kwd_group_els = <<KwdPtBr, KwdPT, KwdNoLang>>
    /\ KeywordEntries(pruned)
           = << <<Entry(T_pt, JList(<<JStr(T_Saude), JStr(T_Saude), JStr(T_Dor)>>))>>,
                <<Entry(L_und, JList(<<JStr(T_Kw)>>))>> >>

\* the references of a record
ReferencesIn(rec) == ListField(rec, K_references)

\* what a record holds for a text: the text trimmed, nothing when that is empty
TextOrAbsent(el) == IF Truthy(_txt(el)) THEN _txt(el) ELSE JNull

\* the structured part of the n-th reference is there only when the <ref> has an
\* element-citation, and is never an empty object
StructuredOnlyFromCitation(n) ==
    LET ref == doc.ref_els[n]
        entry == ReferencesIn(pruned)[n]
    IN  /\ DictHas(entry.c, K_structured) => ref.has_ec
        /\ ~ref.has_ec => ~DictHas(entry.c, K_structured)
        /\ DictHas(entry.c, K_structured) =>
              /\ Field(entry, K_structured).t = "dict"
              /\ Field(entry, K_structured).c # <<>>
        /\ (ref.has_ec /\ Truthy(_txt(ref.ec.source))) =>
              Field(Field(entry, K_structured), K_source) = _txt(ref.ec.source)

-----------------------------------------------------------------------------
(* Claims about the counts of walk_and_convert and write_bulk *)

\* walk_and_convert has returned
WalkReturned == pc \in {"walk_done", "bulk_start", "bulk_loop", "bulk_done"}

\* the files of the directory that convert, and those that do not
Converted == {f \in input_dir : f.fails = "none"}
Failed == {f \in input_dir : f.fails # "none"}

\* C20: once walk_and_convert has returned, the output holds one line per file
\* found, failures included, and total counts the files converted only; write_bulk
\* run on that output counts every line and emits each of them, error records
\* included, after an action line.
C20_LinesCountFailuresTotalDoesNot ==
    /\ WalkReturned =>
          /\ Len(fout) = Cardinality(input_dir)
          /\ Len(fout) = Cardinality(Converted) + Cardinality(Failed)
          /\ total = Cardinality(Converted)
          /\ \A k \in 1..Len(fout) :
                xml_files[k].fails # "none" =>
                    fout[k] = OutputLine(ErrorRecord(xml_files[k].path,
                                                     Raised(xml_files[k])))
    /\ pc = "bulk_done" =>
          /\ bulk_n = Len(fout)
          /\ Len(bulk) = 2 * Len(fout)
          /\ \A k \in 1..Len(fout) :
                /\ bulk[2 * k - 1] = OutputLine(BulkMeta(index_name))
                /\ bulk[2 * k] = fout[k]

\* a directory of three files, two of them failing: three lines, total 1, and
\* write_bulk has counted the three lines
C20_Witness ==
    /\ pc = "bulk_done"
    /\ Cardinality(Failed) = 2
    /\ Len(fout) = 3
    /\ total = 1
    /\ bulk_n = 3
    /\ \E k \in 1..Len(fout) :
          /\ xml_files[k].fails = "fromstring"
          /\ bulk[2 * k] = OutputLine(ErrorRecord(xml_files[k].path, Raised(xml_files[k])))

-----------------------------------------------------------------------------
(* Claims about the shape that _lowercase_record and _prune leave *)

\* the keys of a node, in order (the empty key for each item of a list)
KeysOf(v) == [i \in 1..Len(v.c) |-> v.c[i].k]

\* v and w have the same nodes at the same positions: the same kind of value, the
\* same keys in the same order, the same number of items, and the same value
\* wherever it is not a string
SameShape(v, w) ==
    /\ Positions(w) = Positions(v)
    /\ \A pos \in Positions(v) :
          pos \in Positions(w) =>
              LET n == NodeAt(v, pos)
                  m == NodeAt(w, pos)
              IN  /\ m.t = n.t
                  /\ KeysOf(m) = KeysOf(n)
                  /\ n.t # "str" => m.s = n.s
                  /\ n.t = "str" => Len(m.s) = Len(n.s)

\* C21: whatever the skip set, _lowercase_record returns a value of the shape of its
\* input (same keys with their capitals, same lengths and order, same scalars that
\* are not strings), and applied again with the same skip set it returns what it
\* was given.
C21_LowercaseKeepsShapeAndIsIdempotent ==
    /\ pc \in {"lower_done", "lower_again"} => SameShape(l_in, l_out)
    /\ pc = "lower_again" => l_again = l_out

\* {"Ky": "Ab", "L": ["CD", 0, None, False]} with the first item of the list skipped:
\* "Ab" is lowercased under the key "Ky", "CD" stays, and the second pass changes
\* nothing
C21_Witness ==
    /\ pc = "lower_again"
    /\ l_in = UpperKeyRecord
    /\ l_skip = {<<"L", "[", "0", "]">>}
    /\ l_out = JDict(<<[k |-> <<"K", "y">>, v |-> JStr(<<"a", "b">>)],
                       [k |-> <<"L">>,
                        v |-> JList(<<JStr(<<"C", "D">>), JInt0, JNull, JFalse>>)]>>)
    /\ l_again = l_out

\* a value with every string in it lowercased
AllLower(v) == _lowercase_record(v, {}, <<>>)

\* the items of a list of the record that _prune keeps: all but None, [] and {}
KeptItems(rec, key) ==
    SelectSeq(ListField(rec, key),
              LAMBDA item : /\ item # JNull
                            /\ ~(item.t \in {"list", "dict"} /\ item.c = <<>>))

\* the list under key has the same items in the record before and after _prune,
\* without those that _prune drops, the later ones moved down
PrunedListShifts(key) == ListField(pruned, key) = KeptItems(record, key)

\* item by item, the abstracts returned keep the text of the abstract at the same
\* index of the pruned record, the rest lowercased
AbstractsAligned ==
    /\ Len(ListField(result, K_abstracts)) = Len(ListField(pruned, K_abstracts))
    /\ \A i \in 1..Len(ListField(pruned, K_abstracts)) :
          LET was == ListField(pruned, K_abstracts)[i]
              now == ListField(result, K_abstracts)[i]
          IN  /\ Field(now, K_text) = Field(was, K_text)
              /\ Field(now, K_lang) = AllLower(Field(was, K_lang))

\* the same for the authors: email, email_from_note, orcid and the country_code of
\* each affiliation
AuthorsAligned ==
    /\ Len(AuthorsIn(result)) = Len(AuthorsIn(pruned))
    /\ \A i \in 1..Len(AuthorsIn(pruned)) :
          LET was == AuthorsIn(pruned)[i]
              now == AuthorsIn(result)[i]
          IN  /\ \A key \in SkipAuthorKeys : Field(now, key) = Field(was, key)
              /\ \A key \in {K_given, K_surname, K_author_flat} :
                    Field(now, key) = AllLower(Field(was, key))
              /\ Len(ListField(now, K_affiliations)) = Len(ListField(was, K_affiliations))
              /\ \A j \in 1..Len(ListField(was, K_affiliations)) :
                    LET aff_was == ListField(was, K_affiliations)[j]
                        aff_now == ListField(now, K_affiliations)[j]
                    IN  /\ Field(aff_now, K_country_code) = Field(aff_was, K_country_code)
                        /\ Field(aff_now, K_org_name) = AllLower(Field(aff_was, K_org_name))

\* the same for the paragraphs of the sections
SectionsAligned ==
    /\ Len(ListField(result, K_full_text_sections))
           = Len(ListField(pruned, K_full_text_sections))
    /\ \A i \in 1..Len(ListField(pruned, K_full_text_sections)) :
          LET was == ListField(pruned, K_full_text_sections)[i]
              now == ListField(result, K_full_text_sections)[i]
          IN  /\ Field(now, K_paragraphs) = Field(was, K_paragraphs)
              /\ Field(now, K_title) = AllLower(Field(was, K_title))

\* the same for doi, pmid, pmcid and uri of the structured part of the references
ReferencesAligned ==
    /\ Len(ReferencesIn(result)) = Len(ReferencesIn(pruned))
    /\ \A i \in 1..Len(ReferencesIn(pruned)) :
          LET was == ReferencesIn(pruned)[i]
              now == ReferencesIn(result)[i]
          IN  /\ Field(now, K_mixed_citation) = AllLower(Field(was, K_mixed_citation))
              /\ DictHas(was.c, K_structured) =>
                    /\ \A key \in SkipStructuredKeys :
                          Field(Field(now, K_structured), key)
                              = Field(Field(was, K_structured), key)
                    /\ Field(Field(now, K_structured), K_source)
                           = AllLower(Field(Field(was, K_structured), K_source))

\* C22: the final _prune drops the empty items of the lists of the record and moves
\* the later ones down, and with lowercasing on, each value that an index-based skip
\* path protects is the one at that index of the pruned record: it keeps its case,
\* and its neighbours are lowercased.
C22_SkipPathsIndexThePrunedRecord ==
    pc = "parse_done" =>
        /\ pruned = _prune(record)
        /\ NoEmptyEntries(pruned)
        /\ \A key \in {K_abstracts, K_authors, K_full_text_sections, K_references} :
              PrunedListShifts(key)
        /\ lowercase =>
              /\ AbstractsAligned
              /\ AuthorsAligned
              /\ SectionsAligned
              /\ ReferencesAligned

\* an empty <contrib> before Ana Silva, an empty <ref> before B1: the record holds
\* two authors and two references before _prune and one of each after, and Ana's
\* country code and the DOI of B1 keep their capitals at index 0
C22_Witness ==
    /\ pc = "parse_done" /\ lowercase
    /\ doc.contrib_els = <<NoContrib, ContribAna>>
    /\ doc.ref_els = <<RefNothing, RefJournal>>
    /\ Len(ListField(record, K_authors)) = 2
    /\ Len(ListField(record, K_references)) = 2
    /\ Len(ListField(record, K_abstracts)) = 2
    /\ Len(AuthorsIn(result)) = 1
    /\ Len(ReferencesIn(result)) = 1
    /\ Len(ListField(result, K_abstracts)) = 1
    /\ Field(AuthorsIn(result)[1], K_given) = JStr(<<"a", "n", "a">>)
    /\ Field(ListField(AuthorsIn(result)[1], K_affiliations)[1], K_country_code)
           = JStr(T_BR)
    /\ Field(Field(ReferencesIn(result)[1], K_structured), K_doi) = JStr(T_RefDoi)
    /\ Field(ReferencesIn(result)[1], K_mixed_citation)
           = JStr(<<"m", "i", "x", "e", "d", " ", "o", "n", "e">>)

====
